---------------------------- MODULE Spec2Model ----------------------------
(***************************************************************************)
(* Behavioral telemetry and trust-policy client.                           *)
(*                                                                         *)
(* Two front-ends of the repository are modelled:                          *)
(*   - the React client: the collector hook useBehavioralCapture and the   *)
(*     Dashboard policy reactor (applyPolicy / handleTerminate);           *)
(*   - the vanilla client: the capture agent with its module-level state.  *)
(*                                                                         *)
(* SpecCapture is the collector (one hook instance, or the vanilla agent   *)
(* over several login/logout cycles); the variable `client` fixes which    *)
(* front-end a behaviour is about.                                         *)
(***************************************************************************)
EXTENDS Integers, Sequences, FiniteSets, TLC

\* JavaScript values: a string is itself; a number or an absent number is a
\* tagged record, so that numbers and absent values compare.
NULL == "null"
UNDEF == "undefined"
Num(n) == [t |-> "number", v |-> n]
Undefined == [t |-> "undefined", v |-> 0]
Null == [t |-> "null", v |-> 0]
NaN == [t |-> "NaN", v |-> 0]
NoToast == [message |-> "none", type |-> "none"]
NotApplied == [source |-> "none", action |-> UNDEF, requireStepup |-> FALSE,
               score |-> Undefined, whileOpen |-> FALSE]
\* a timer handle that is null
NoTimer == 0 - 1

(***************************************************************************)
(* Bounds of the model.                                                    *)
(***************************************************************************)
MaxEvents == 2      \* input events recorded in one behaviour
MaxTicks == 2       \* clock advances in one behaviour of the React hook
MaxTicksVanilla == 1  \* clock advances in one behaviour of the vanilla agent
MaxSessions == 2    \* logins of the vanilla client in one behaviour
MaxPolls == 2       \* trust polls issued in one behaviour of the Dashboard
MaxBatchUpdates == 1  \* batch trust updates delivered in one behaviour of the Dashboard
MaxStepUps == 1     \* step-up requests of the earlier Dashboard in one behaviour
MaxTicksDash == 1   \* clock advances in one behaviour of the Dashboard
MaxTicksEarlier == 2  \* clock advances in one behaviour of the earlier and the vanilla dashboard
MaxAdds == 2         \* addAlert calls made on a given alert list

(***************************************************************************)
(* Program constants.                                                      *)
(***************************************************************************)
BATCH_INTERVAL == 5000
POLL_INTERVAL_MS == 10000
TERMINATE_DELAY_MS == 4000
ALERT_CAP == 20
ALERT_CAP_EARLIER == 10
ALERT_CAP_VANILLA == 10
TRUST_UPDATE_INTERVAL == 10000
MOUSE_THROTTLE == 100

\* The clock advances in steps of half the throttle interval, or jumps to
\* the next timer deadline.
DashStep == TERMINATE_DELAY_MS \div 2
TickSteps == {MOUSE_THROTTLE \div 2}

(***************************************************************************)
(* Inputs.                                                                 *)
(***************************************************************************)
\* event.target.type of a keyboard event
TargetTypes == {"text", "password"}
\* event.key / event.code of a keyboard event (keyLength is event.key.length)
KeyInputs == {[key |-> "a", keyLength |-> 1, code |-> "KeyA"]}
\* clientX / clientY of a mouse event
MouseInputs == {[clientX |-> 10, clientY |-> 20]}
\* what the scorer answers to POST /events/batch
BatchResults == {[ok |-> TRUE, trust_score |-> Undefined, status |-> UNDEF],
                 [ok |-> TRUE, trust_score |-> Num(55), status |-> "MONITOR"],
                 [ok |-> FALSE, trust_score |-> Undefined, status |-> UNDEF]}

VARIABLES
    client,            \* "react" | "vanilla"
    phase,             \* react: "init" | "mounted" | "unmounted"; vanilla: "auth" | "dashboard"
    currentSession,    \* token/sessionId in scope: 0 when null, else the session's number
    loginCount,        \* vanilla logins so far
    isCapturing,
    listeners,         \* the four document listeners are attached
    batchInterval,     \* NoTimer, or the time the live batch interval fires next
    eventBuffer,
    lastMouseMove,
    keystrokeCount,
    mouseCount,
    batchesSent,
    updateTrustScore,  \* the trust update last handed to the dashboard
    inFlight,          \* indices (into submitted) of submissions awaiting their answer
    now,               \* Date.now(), in ms
    ticks,
    \* history variables
    submitted,         \* every batch handed to the transport, in order
    recorded,          \* every event record ever pushed
    discarded,         \* event records dropped by a reset of the buffer
    nextId,
    epoch,             \* number of startCapture calls that took effect
    lastInput          \* the input event dispatched by the last step, if it was one

VARIABLES
    \* React Dashboard and AuthContext
    mounted,           \* the Dashboard is mounted (isAuthenticated was true at the last render)
    isAuthenticated,
    token,             \* AuthContext token: 0 when null
    trustScore,
    trustStatus,
    showStepUp,
    alerts,
    toast,             \* what showToast showed last
    pollInterval,      \* NoTimer, or the time the trust-poll interval fires next
    polls,             \* trust polls awaiting their answer, each with its closure
    terminateTimers,   \* pending setTimeout(logout) timers of handleTerminate
    logoutsInFlight,   \* logout() calls awaiting POST /auth/logout
    alertFetches,      \* fetchAlerts() calls awaiting their answer
    sessionLoads,      \* loadSessionInfo() calls awaiting their answer
    modalPhase,        \* StepUpModal.handleAuth: "idle" | "begin" | "get" | "complete"
    modalLoading,
    modalError,
    \* history variables
    requests,          \* trust polls issued so far
    batchUpdates,      \* batch trust updates delivered so far
    toastCount,        \* showToast calls so far
    timersSet,         \* setTimeout(logout) calls so far
    logoutCalls,       \* logout() calls so far, and how many came from a terminate timer
    lastApplied        \* the last applyPolicy call: its arguments, closure and the state before

VARIABLES
    \* the earlier Dashboard (components/Dashboard.jsx)
    stepUps,           \* step-up requests of the earlier modal awaiting their answer
    attempts,          \* step-up requests of the earlier modal so far
    variant,           \* the Dashboard in use: "current" | "earlier" | "vanilla"
    adds,              \* addAlert calls made on a given alert list
    pollIntervals,     \* vanilla: intervals of startTrustScorePolling still running
    authToken,         \* localStorage 'authToken': 0 when absent, else the token
    verifying,         \* saved tokens whose verifySession awaits its answer
    staleIntervals     \* react: batch intervals of earlier effect runs, never cleared

earlierVars == <<stepUps, attempts, variant, adds, pollIntervals, authToken, verifying,
                staleIntervals>>

dashVars == <<mounted, isAuthenticated, token, trustScore, trustStatus, showStepUp,
              alerts, toast, pollInterval, polls, terminateTimers, logoutsInFlight,
              alertFetches, sessionLoads, modalPhase, modalLoading, modalError,
              requests, batchUpdates, toastCount, timersSet, logoutCalls, lastApplied>>

\* the collector's variables the Dashboard does not touch
collectorVars == <<client, phase, currentSession, loginCount, isCapturing,
                   listeners, batchInterval, eventBuffer, lastMouseMove,
                   keystrokeCount, mouseCount, batchesSent, inFlight, submitted,
                   recorded, discarded, nextId, epoch, lastInput>>

captureVars == <<client, phase, currentSession, loginCount, isCapturing,
                 listeners, batchInterval, eventBuffer, lastMouseMove,
                 keystrokeCount, mouseCount, batchesSent, updateTrustScore,
                 inFlight, now, ticks, submitted, recorded, discarded, nextId,
                 epoch, lastInput>>

vars == <<captureVars, dashVars, earlierVars>>

TickBound == IF client = "react" THEN MaxTicks ELSE MaxTicksVanilla

NoInput == [op |-> "none", target |-> "none"]
InputOp(name, target) == [op |-> name, target |-> target]


(***************************************************************************)
(* Event records.  A record carries what the code puts in it (type, key or *)
(* x/y, action, timestamp) and three history fields (id, epoch, target).   *)
(* Fields a kind of event does not have are kept with the values NoKey, 0. *)
(* timestamp is Date.now() in ms (the code divides by 1000: seconds).      *)
(***************************************************************************)
NoKey == "-"

KeystrokeRecord(event, action) ==
    [id |-> nextId, epoch |-> epoch, target |-> event.target,
     type |-> "keystroke",
     key |-> IF event.keyLength = 1 THEN event.key ELSE event.code,
     x |-> 0, y |-> 0,
     action |-> action,
     timestamp |-> now]

MouseRecord(event, action, t) ==
    [id |-> nextId, epoch |-> epoch, target |-> "none",
     type |-> "mouse",
     key |-> NoKey,
     x |-> event.clientX, y |-> event.clientY,
     action |-> action,
     timestamp |-> t]

KeyEvents == {[target |-> t, key |-> k.key, keyLength |-> k.keyLength, code |-> k.code] :
                 t \in TargetTypes, k \in KeyInputs}

counters == <<keystrokeCount, mouseCount, batchesSent>>

(***************************************************************************)
(* React hook useBehavioralCapture: the input handlers.                    *)
(***************************************************************************)
\* Mutant of handleKeyDown: the sensitive-field check is missing.
handleKeyDownNoRedact(event) ==
    IF ~isCapturing THEN UNCHANGED <<eventBuffer, keystrokeCount>>
    ELSE /\ eventBuffer' = Append(eventBuffer, KeystrokeRecord(event, "down"))
         /\ keystrokeCount' = keystrokeCount + 1

handleKeyDown(event) ==
    IF ~isCapturing THEN UNCHANGED <<eventBuffer, keystrokeCount>>
    ELSE IF event.target = "password" THEN UNCHANGED <<eventBuffer, keystrokeCount>>
    ELSE /\ eventBuffer' = Append(eventBuffer, KeystrokeRecord(event, "down"))
         /\ keystrokeCount' = keystrokeCount + 1

\* Mutant of handleKeyUp: a key-up is counted as well.
handleKeyUpCounting(event) ==
    IF ~isCapturing THEN UNCHANGED <<eventBuffer, keystrokeCount>>
    ELSE IF event.target = "password" THEN UNCHANGED <<eventBuffer, keystrokeCount>>
    ELSE /\ eventBuffer' = Append(eventBuffer, KeystrokeRecord(event, "up"))
         /\ keystrokeCount' = keystrokeCount + 1

handleKeyUp(event) ==
    IF ~isCapturing THEN UNCHANGED <<eventBuffer, keystrokeCount>>
    ELSE IF event.target = "password" THEN UNCHANGED <<eventBuffer, keystrokeCount>>
    ELSE /\ eventBuffer' = Append(eventBuffer, KeystrokeRecord(event, "up"))
         /\ UNCHANGED keystrokeCount

\* handleMouseMove that forgets to remember the time of the sample
handleMouseMoveNoStamp(event) ==
    IF ~isCapturing THEN UNCHANGED <<eventBuffer, mouseCount, lastMouseMove>>
    ELSE IF now - lastMouseMove < MOUSE_THROTTLE
         THEN UNCHANGED <<eventBuffer, mouseCount, lastMouseMove>>
    ELSE /\ lastMouseMove' = lastMouseMove
         /\ eventBuffer' = Append(eventBuffer, MouseRecord(event, "move", now))
         /\ mouseCount' = mouseCount + 1

\* handleMouseMove whose throttle measures from the last move seen
handleMouseMoveStampsSeen(event) ==
    IF ~isCapturing THEN UNCHANGED <<eventBuffer, mouseCount, lastMouseMove>>
    ELSE IF now - lastMouseMove < MOUSE_THROTTLE
         THEN /\ lastMouseMove' = now
              /\ UNCHANGED <<eventBuffer, mouseCount>>
    ELSE /\ lastMouseMove' = now
         /\ eventBuffer' = Append(eventBuffer, MouseRecord(event, "move", now))
         /\ mouseCount' = mouseCount + 1

handleMouseMove(event) ==
    IF ~isCapturing THEN UNCHANGED <<eventBuffer, mouseCount, lastMouseMove>>
    ELSE IF now - lastMouseMove < MOUSE_THROTTLE
         THEN UNCHANGED <<eventBuffer, mouseCount, lastMouseMove>>
    ELSE /\ lastMouseMove' = now
         /\ eventBuffer' = Append(eventBuffer, MouseRecord(event, "move", now))
         /\ mouseCount' = mouseCount + 1

\* handleMouseClick behind the throttle of the moves
handleMouseClickThrottled(event) ==
    IF ~isCapturing THEN UNCHANGED <<eventBuffer, mouseCount>>
    ELSE IF now - lastMouseMove < MOUSE_THROTTLE THEN UNCHANGED <<eventBuffer, mouseCount>>
    ELSE /\ eventBuffer' = Append(eventBuffer, MouseRecord(event, "click", now))
         /\ mouseCount' = mouseCount + 1

handleMouseClick(event) ==
    IF ~isCapturing THEN UNCHANGED <<eventBuffer, mouseCount>>
    ELSE /\ eventBuffer' = Append(eventBuffer, MouseRecord(event, "click", now))
         /\ mouseCount' = mouseCount + 1

(***************************************************************************)
(* React hook: sendEventBatch up to its await.  tok is the token/sessionId *)
(* of the closure that runs it.                                            *)
(***************************************************************************)
\* Mutant of sendEventBatch: the buffer is cleared before it is copied.
sendEventBatchClearFirst(tok) ==
    IF Len(eventBuffer) = 0 THEN UNCHANGED <<eventBuffer, submitted, inFlight>>
    ELSE IF tok = 0 THEN UNCHANGED <<eventBuffer, submitted, inFlight>>
    ELSE /\ eventBuffer' = <<>>
         /\ submitted' = Append(submitted, [session |-> tok, events |-> eventBuffer'])
         /\ inFlight' = inFlight \cup {Len(submitted) + 1}

sendEventBatch(tok) ==
    IF Len(eventBuffer) = 0 THEN UNCHANGED <<eventBuffer, submitted, inFlight>>
    ELSE IF tok = 0 THEN UNCHANGED <<eventBuffer, submitted, inFlight>>
    ELSE /\ submitted' = Append(submitted, [session |-> tok, events |-> eventBuffer])
         /\ eventBuffer' = <<>>
         /\ inFlight' = inFlight \cup {Len(submitted) + 1}

\* sendEventBatch whose answer counts as sent whether it succeeded or not
sendEventBatchResolveCountsAll(i, result) ==
    /\ inFlight' = inFlight \ {i}
    /\ IF phase = "mounted"
       THEN /\ batchesSent' = batchesSent + 1
            /\ UNCHANGED updateTrustScore
       ELSE UNCHANGED <<batchesSent, updateTrustScore>>

\* sendEventBatch after its await: the answer to submission i arrives.
\* State updates of an unmounted component are dropped by React.
sendEventBatchResolve(i, result) ==
    /\ inFlight' = inFlight \ {i}
    /\ IF result.ok /\ phase = "mounted"
       THEN /\ batchesSent' = batchesSent + 1
            /\ updateTrustScore' =
                 IF result.trust_score # Undefined
                 THEN [score |-> result.trust_score, status |-> result.status]
                 ELSE updateTrustScore
       ELSE UNCHANGED <<batchesSent, updateTrustScore>>

\* startCapture without its guard: it starts whether or not capture is active
startCaptureUnguarded ==
    /\ isCapturing' = TRUE
    /\ listeners' = TRUE
    /\ batchInterval' = now + BATCH_INTERVAL
    /\ epoch' = epoch + 1

startCapture ==
    IF isCapturing THEN UNCHANGED <<isCapturing, listeners, batchInterval, epoch>>
    ELSE /\ isCapturing' = TRUE
         /\ listeners' = TRUE
         /\ batchInterval' = now + BATCH_INTERVAL
         /\ epoch' = epoch + 1

\* The interval startCapture created is not cleared: the effect drops the
\* cleanup function startCapture returns.
stopCapture ==
    IF ~isCapturing
    THEN UNCHANGED <<isCapturing, listeners, eventBuffer, submitted, inFlight>>
    ELSE /\ isCapturing' = FALSE
         /\ listeners' = FALSE
         /\ IF Len(eventBuffer) > 0
            THEN sendEventBatch(currentSession)
            ELSE UNCHANGED <<eventBuffer, submitted, inFlight>>


(***************************************************************************)
(* Vanilla capture agent: module-level state, same handlers.               *)
(***************************************************************************)
handleKeyDownVanilla(event) ==
    IF ~isCapturing THEN UNCHANGED <<eventBuffer, keystrokeCount>>
    ELSE IF event.target = "password" THEN UNCHANGED <<eventBuffer, keystrokeCount>>
    ELSE /\ eventBuffer' = Append(eventBuffer, KeystrokeRecord(event, "down"))
         /\ keystrokeCount' = keystrokeCount + 1

handleKeyUpVanilla(event) ==
    IF ~isCapturing THEN UNCHANGED <<eventBuffer, keystrokeCount>>
    ELSE IF event.target = "password" THEN UNCHANGED <<eventBuffer, keystrokeCount>>
    ELSE /\ eventBuffer' = Append(eventBuffer, KeystrokeRecord(event, "up"))
         /\ UNCHANGED keystrokeCount

handleMouseMoveVanilla(event) ==
    IF ~isCapturing THEN UNCHANGED <<eventBuffer, mouseCount, lastMouseMove>>
    ELSE IF now - lastMouseMove < MOUSE_THROTTLE
         THEN UNCHANGED <<eventBuffer, mouseCount, lastMouseMove>>
    ELSE /\ lastMouseMove' = now
         /\ eventBuffer' = Append(eventBuffer, MouseRecord(event, "move", now))
         /\ mouseCount' = mouseCount + 1

handleMouseClickVanilla(event) ==
    IF ~isCapturing THEN UNCHANGED <<eventBuffer, mouseCount>>
    ELSE /\ eventBuffer' = Append(eventBuffer, MouseRecord(event, "click", now))
         /\ mouseCount' = mouseCount + 1

\* tok is currentToken/currentSessionId as they are when the function runs.
sendEventBatchVanilla(tok) ==
    IF Len(eventBuffer) = 0 THEN UNCHANGED <<eventBuffer, submitted, inFlight>>
    ELSE IF tok = 0 THEN UNCHANGED <<eventBuffer, submitted, inFlight>>
    ELSE /\ submitted' = Append(submitted, [session |-> tok, events |-> eventBuffer])
         /\ eventBuffer' = <<>>
         /\ inFlight' = inFlight \cup {Len(submitted) + 1}

\* After the await: a failed fetch or a non-ok response changes nothing;
\* a successful one counts the batch and calls window.updateTrustScore.
sendEventBatchResolveVanilla(i, result) ==
    /\ inFlight' = inFlight \ {i}
    /\ IF result.ok
       THEN /\ batchesSent' = batchesSent + 1
            /\ updateTrustScore' =
                 IF result.trust_score # Undefined
                 THEN [score |-> result.trust_score, status |-> result.status]
                 ELSE updateTrustScore
       ELSE UNCHANGED <<batchesSent, updateTrustScore>>

startCaptureVanilla ==
    IF isCapturing
    THEN UNCHANGED <<isCapturing, listeners, batchInterval, epoch, eventBuffer,
                     discarded, keystrokeCount, mouseCount, batchesSent>>
    ELSE /\ isCapturing' = TRUE
         /\ eventBuffer' = <<>>
         /\ discarded' = discarded \cup {eventBuffer[k] : k \in 1..Len(eventBuffer)}
         /\ keystrokeCount' = 0
         /\ mouseCount' = 0
         /\ batchesSent' = 0
         /\ listeners' = TRUE
         /\ batchInterval' = now + BATCH_INTERVAL
         /\ epoch' = epoch + 1

stopCaptureVanilla(tok) ==
    IF ~isCapturing
    THEN UNCHANGED <<isCapturing, listeners, batchInterval, eventBuffer, submitted, inFlight>>
    ELSE /\ isCapturing' = FALSE
         /\ listeners' = FALSE
         /\ batchInterval' = NoTimer
         /\ IF Len(eventBuffer) > 0
            THEN sendEventBatchVanilla(tok)
            ELSE UNCHANGED <<eventBuffer, submitted, inFlight>>

\* a Dashboard to which nothing has happened
PanelIdle ==
    /\ trustScore = Num(100)
    /\ trustStatus = "OK"
    /\ showStepUp = FALSE
    /\ alerts = <<>>
    /\ toast = NoToast
    /\ pollInterval = NoTimer
    /\ polls = {}
    /\ terminateTimers = {}
    /\ logoutsInFlight = 0
    /\ alertFetches = 0
    /\ sessionLoads = 0
    /\ modalPhase = "idle"
    /\ modalLoading = FALSE
    /\ modalError = NULL
    /\ requests = 0
    /\ batchUpdates = 0
    /\ toastCount = 0
    /\ timersSet = 0
    /\ logoutCalls = [all |-> 0, byTimer |-> 0]
    /\ lastApplied = NotApplied
    /\ stepUps = 0
    /\ attempts = 0
    /\ adds = 0
    /\ pollIntervals = 0

\* The Dashboard's variables while only the collector is looked at.
DashIdle ==
    /\ mounted = TRUE
    /\ isAuthenticated = TRUE
    /\ token = 1
    /\ authToken = (IF client = "vanilla" THEN 0 ELSE 1)
    /\ variant = "current"
    /\ verifying = {}
    /\ staleIntervals = {}
    /\ PanelIdle

(***************************************************************************)
(* The collector as a state machine.                                       *)
(***************************************************************************)
\* a collector that has not started
CollectorIdle ==
    /\ loginCount = 0
    /\ isCapturing = FALSE
    /\ listeners = FALSE
    /\ batchInterval = NoTimer
    /\ eventBuffer = <<>>
    /\ lastMouseMove = 0
    /\ keystrokeCount = 0
    /\ mouseCount = 0
    /\ batchesSent = 0
    /\ updateTrustScore = [score |-> Null, status |-> NULL]
    /\ inFlight = {}
    /\ now = MOUSE_THROTTLE
    /\ ticks = 0
    /\ submitted = <<>>
    /\ recorded = {}
    /\ discarded = {}
    /\ nextId = 0
    /\ epoch = 0
    /\ lastInput = NoInput

InitCapture ==
    /\ client \in {"react", "vanilla"}
    /\ phase = IF client = "react" THEN "init" ELSE "auth"
    /\ currentSession = IF client = "react" THEN 1 ELSE 0
    /\ CollectorIdle
    /\ DashIdle

\* History of an input handler's run: a pushed record gets the next id.
Pushed ==
    /\ nextId' = IF eventBuffer' # eventBuffer THEN nextId + 1 ELSE nextId
    /\ recorded' = IF eventBuffer' # eventBuffer
                   THEN recorded \cup {eventBuffer'[Len(eventBuffer')]}
                   ELSE recorded

\* useEffect of the hook: token and sessionId are set, so capture starts.
Mount ==
    /\ client = "react" /\ phase = "init"
    /\ phase' = "mounted"
    /\ IF currentSession = 0
       THEN UNCHANGED <<isCapturing, listeners, batchInterval, epoch>>
       ELSE startCapture
    /\ lastInput' = NoInput
    /\ UNCHANGED <<dashVars, earlierVars, client, currentSession, loginCount, eventBuffer,
                   lastMouseMove, keystrokeCount, mouseCount, batchesSent,
                   updateTrustScore, inFlight, now, ticks, submitted, recorded,
                   discarded, nextId>>

\* The effect's cleanup: stopCapture of the same closure.
Unmount ==
    /\ client = "react" /\ phase = "mounted"
    /\ phase' = "unmounted"
    /\ lastInput' = NoInput
    /\ stopCapture
    /\ UNCHANGED <<dashVars, earlierVars, client, currentSession, loginCount, batchInterval,
                   lastMouseMove, keystrokeCount, mouseCount, batchesSent,
                   updateTrustScore, now, ticks, recorded, discarded, nextId, epoch>>

\* handleLogin succeeded: the session is stored, switchToDashboard runs
\* initDashboard (which starts one more poll interval) and starts capture.
LoginVanilla ==
    /\ client = "vanilla" /\ phase = "auth"
    /\ loginCount < MaxSessions
    /\ loginCount' = loginCount + 1
    /\ currentSession' = loginCount + 1
    /\ phase' = "dashboard"
    /\ pollIntervals' = pollIntervals + 1
    /\ authToken' = loginCount + 1
    /\ startCaptureVanilla
    /\ lastInput' = NoInput
    /\ UNCHANGED <<dashVars, stepUps, attempts, variant, adds, verifying, staleIntervals, client, lastMouseMove,
                   updateTrustScore, inFlight, now, ticks, submitted, recorded, nextId>>

\* logout(): after the await of POST /auth/logout (whose outcome is ignored)
\* the stored session is cleared, and only then is capture stopped.  Nothing
\* is read or written before the await, so the handler is one step here.
LogoutVanilla ==
    /\ client = "vanilla" /\ phase = "dashboard"
    /\ currentSession' = 0
    /\ phase' = "auth"
    /\ lastInput' = NoInput
    /\ authToken' = 0
    /\ stopCaptureVanilla(0)
    /\ UNCHANGED <<dashVars, stepUps, attempts, variant, adds, pollIntervals, verifying, staleIntervals, client,
                   loginCount, lastMouseMove, keystrokeCount, mouseCount,
                   batchesSent, updateTrustScore, now, ticks, recorded, discarded,
                   nextId, epoch>>

InputFrame ==
    UNCHANGED <<dashVars, earlierVars, client, phase, currentSession, loginCount, isCapturing,
                listeners, batchInterval, batchesSent, updateTrustScore, inFlight,
                now, ticks, submitted, discarded, epoch>>

KeyDown(event) ==
    /\ listeners /\ nextId < MaxEvents
    /\ IF client = "react" THEN handleKeyDown(event) ELSE handleKeyDownVanilla(event)
    /\ Pushed
    /\ lastInput' = InputOp("keydown", event.target)
    /\ UNCHANGED <<mouseCount, lastMouseMove>>
    /\ InputFrame

KeyUp(event) ==
    /\ listeners /\ nextId < MaxEvents
    /\ IF client = "react" THEN handleKeyUp(event) ELSE handleKeyUpVanilla(event)
    /\ Pushed
    /\ lastInput' = InputOp("keyup", event.target)
    /\ UNCHANGED <<mouseCount, lastMouseMove>>
    /\ InputFrame

MouseMove(event) ==
    /\ listeners /\ nextId < MaxEvents
    /\ IF client = "react" THEN handleMouseMove(event) ELSE handleMouseMoveVanilla(event)
    /\ Pushed
    /\ lastInput' = InputOp("mousemove", "none")
    /\ UNCHANGED keystrokeCount
    /\ InputFrame

MouseClick(event) ==
    /\ listeners /\ nextId < MaxEvents
    /\ IF client = "react" THEN handleMouseClick(event) ELSE handleMouseClickVanilla(event)
    /\ Pushed
    /\ lastInput' = InputOp("click", "none")
    /\ UNCHANGED <<keystrokeCount, lastMouseMove>>
    /\ InputFrame

\* The batch interval fires and runs sendEventBatch.
BatchTimer ==
    /\ batchInterval # NoTimer /\ now >= batchInterval
    /\ batchInterval' = batchInterval + BATCH_INTERVAL
    /\ IF client = "react"
       THEN sendEventBatch(currentSession)
       ELSE sendEventBatchVanilla(currentSession)
    /\ lastInput' = NoInput
    /\ UNCHANGED <<dashVars, earlierVars, client, phase, currentSession, loginCount,
                   isCapturing, listeners, lastMouseMove, keystrokeCount, mouseCount,
                   batchesSent, updateTrustScore, now, ticks, recorded, discarded,
                   nextId, epoch>>

\* The answer to a submission arrives.
BatchAnswer(i, result) ==
    /\ i \in inFlight
    /\ IF client = "react"
       THEN sendEventBatchResolve(i, result)
       ELSE sendEventBatchResolveVanilla(i, result)
    /\ lastInput' = NoInput
    /\ UNCHANGED <<dashVars, earlierVars, client, phase, currentSession, loginCount,
                   isCapturing, listeners, batchInterval, eventBuffer, lastMouseMove,
                   keystrokeCount, mouseCount, now, ticks, submitted, recorded,
                   discarded, nextId, epoch>>

\* Time passes; a timer that is due fires before the clock moves past it.
Tick(d) ==
    /\ ticks < TickBound
    /\ batchInterval = NoTimer \/ now + d <= batchInterval
    /\ now' = now + d
    /\ ticks' = ticks + 1
    /\ lastInput' = NoInput
    /\ UNCHANGED <<dashVars, earlierVars, client, phase, currentSession, loginCount,
                   isCapturing, listeners, batchInterval, eventBuffer, lastMouseMove,
                   keystrokeCount, mouseCount, batchesSent, updateTrustScore,
                   inFlight, submitted, recorded, discarded, nextId, epoch>>

TickToTimer ==
    /\ ticks < TickBound
    /\ batchInterval # NoTimer /\ now < batchInterval
    /\ now' = batchInterval
    /\ ticks' = ticks + 1
    /\ lastInput' = NoInput
    /\ UNCHANGED <<dashVars, earlierVars, client, phase, currentSession, loginCount,
                   isCapturing, listeners, batchInterval, eventBuffer, lastMouseMove,
                   keystrokeCount, mouseCount, batchesSent, updateTrustScore,
                   inFlight, submitted, recorded, discarded, nextId, epoch>>

NextCapture ==
    \/ Mount
    \/ Unmount
    \/ LoginVanilla
    \/ LogoutVanilla
    \/ \E event \in KeyEvents : KeyDown(event)
    \/ \E event \in KeyEvents : KeyUp(event)
    \/ \E event \in MouseInputs : MouseMove(event)
    \/ \E event \in MouseInputs : MouseClick(event)
    \/ BatchTimer
    \/ \E i \in inFlight, result \in BatchResults : BatchAnswer(i, result)
    \/ \E d \in TickSteps : Tick(d)
    \/ TickToTimer

SpecCapture == InitCapture /\ [][NextCapture]_vars


(***************************************************************************)
(* Properties of the collector.                                            *)
(***************************************************************************)
BufferPlaces(e) == {k \in 1..Len(eventBuffer) : eventBuffer[k] = e}
BatchPlaces(e) ==
    UNION {{<<i, k>> : k \in {j \in 1..Len(submitted[i].events) : submitted[i].events[j] = e}} :
              i \in 1..Len(submitted)}
Held == {eventBuffer[k] : k \in 1..Len(eventBuffer)}
          \cup UNION {{submitted[i].events[k] : k \in 1..Len(submitted[i].events)} :
                         i \in 1..Len(submitted)}

\* A step in which the batch interval fired, and one in which capture stopped:
\* the two callers of sendEventBatch.
TimerStep == batchInterval # NoTimer /\ batchInterval' # NoTimer /\ batchInterval' # batchInterval
StopStep == isCapturing /\ ~isCapturing'

\* C6 (as claimed): per collector at most one batch submission is in flight
\* at any time.
C6_SingleFlight == Cardinality(inFlight) <= 1

\* C7: whenever sendEventBatch runs (from the interval or from stop) with a
\* non-empty buffer and a session present, exactly one batch is handed to the
\* transport, it equals the buffer's contents before the flush, in order, and
\* the buffer is empty right after the swap, before any answer arrives.
C7_FlushIsSwap ==
    [][((TimerStep \/ StopStep) /\ eventBuffer # <<>> /\ currentSession' # 0)
         => /\ Len(submitted') = Len(submitted) + 1
            /\ submitted'[Len(submitted')].events = eventBuffer
            /\ eventBuffer' = <<>>
            /\ inFlight' = inFlight \cup {Len(submitted')}]_vars

C7_Witness ==
    \E i \in inFlight :
        /\ Len(submitted[i].events) >= 2
        /\ submitted[i].events[1].id < submitted[i].events[2].id
        /\ eventBuffer = <<>>

\* C8 (as claimed): every recorded event is in exactly one place: one
\* position of the current buffer, or one position of one submitted batch.
C8_OnePlace ==
    \A e \in recorded :
        Cardinality(BufferPlaces(e)) + Cardinality(BatchPlaces(e)) = 1

C10_SensitiveNeverRecorded ==
    /\ [](\A e \in recorded \cup Held : e.target # "password")
    /\ [][(lastInput'.op \in {"keydown", "keyup"} /\ lastInput'.target = "password")
            => UNCHANGED <<eventBuffer, submitted, recorded, keystrokeCount,
                           mouseCount, batchesSent>>]_vars

C10_Witness ==
    /\ lastInput.op = "keyup" /\ lastInput.target = "password"
    /\ isCapturing
    /\ Len(eventBuffer) >= 1


\* the mouse-move samples recorded so far
MoveSamples == {e \in recorded : e.type = "mouse" /\ e.action = "move"}

\* C11 No two recorded mouse-move samples of a collector have timestamps
\* closer together than the throttle interval.
C11_MovesThrottled ==
    \A e1 \in MoveSamples : \A e2 \in MoveSamples :
        e1.id # e2.id =>
            (e1.timestamp - e2.timestamp >= MOUSE_THROTTLE
                \/ e2.timestamp - e1.timestamp >= MOUSE_THROTTLE)

\* two samples recorded one throttle interval apart, after a move in
\* between was dropped
C11_Witness ==
    /\ \E e1 \in MoveSamples : \E e2 \in MoveSamples :
          e2.timestamp - e1.timestamp = MOUSE_THROTTLE
    /\ lastInput = InputOp("mousemove", "none")

\* C18 A failed batch submission is dropped: its events do not return to
\* the buffer and are not submitted again, batchesSent and the published
\* trust stay as they are, the Dashboard is untouched and the batch timer
\* keeps its schedule; no event is ever in two submissions.
C18_FailedBatchDropped ==
    /\ [][\A i \in inFlight : \A result \in BatchResults :
            (~result.ok /\ BatchAnswer(i, result))
            => /\ inFlight' = inFlight \ {i}
               /\ <<eventBuffer, submitted, batchesSent, updateTrustScore, batchInterval,
                    keystrokeCount, mouseCount>>'
                   = <<eventBuffer, submitted, batchesSent, updateTrustScore, batchInterval,
                       keystrokeCount, mouseCount>>
               /\ dashVars' = dashVars]_vars
    /\ [](\A e \in recorded : Cardinality(BatchPlaces(e)) <= 1)

\* the hook's first submission failed and the next flush went out
C18_Witness ==
    /\ client = "react"
    /\ phase = "mounted"
    /\ Len(submitted) = 2
    /\ inFlight = {2}
    /\ batchesSent = 0

(***************************************************************************)
(* React Dashboard: the policy reactor.                                    *)
(***************************************************************************)
\* what GET /trust/score answers: verdicts whose fields agree, snapshots
\* without an action, snapshots whose fields disagree, and one without fields
Snapshot(score, status, action, req) ==
    [trust_score |-> score, status |-> status, action |-> action, require_stepup |-> req]

PollSnapshots ==
    {Snapshot(Num(85), "OK", "continue", FALSE),
     Snapshot(Num(55), "MONITOR", "monitor", FALSE),
     Snapshot(Num(30), "SUSPICIOUS", "stepup", TRUE),
     Snapshot(Num(10), "CRITICAL", "terminate", FALSE)}
    \cup
    {Snapshot(Num(30), "SUSPICIOUS", UNDEF, FALSE),
     Snapshot(Num(85), "OK", "continue", TRUE),
     Snapshot(Num(85), "OK", "stepup", FALSE)}

\* what a successful POST /events/batch carries when trust_score is defined:
\* the snapshot the scorer embeds
BatchTrust == {Snapshot(Num(55), "MONITOR", "monitor", FALSE),
               Snapshot(Num(10), "CRITICAL", "terminate", FALSE),
               Snapshot(Null, UNDEF, UNDEF, FALSE)}

\* what GET /trust/alerts answers, mapped to the local format
BackendAlerts == {<<[id |-> 0, message |-> [text |-> "backend alert", arg |-> NaN],
                      type |-> "warning"]>>}

\* what GET /auth/session answers
SessionData == {[trust_score |-> Num(55), status |-> "MONITOR"]}

\* the failures of a step-up attempt, by err.name
\* each with the awaits of handleAuth that can throw it
StepUpErrors ==
    {[name |-> "NotAllowedError", message |-> "The operation either timed out or was not allowed.",
      at |-> {"get"}],
     [name |-> "SecurityError", message |-> "The operation is insecure.", at |-> {"get"}],
     [name |-> "Error", message |-> "No credential returned by authenticator", at |-> {"get"}],
     [name |-> "Error", message |-> "Network Error", at |-> {"begin", "complete"}],
     [name |-> "Error", message |-> "", at |-> {"begin", "complete"}]}

\* React drops the state updates of an unmounted component.
SetState(cur, new) == IF mounted THEN new ELSE cur

\* the state a closure of the current render captures
Closure == [trustScore |-> trustScore, trustStatus |-> trustStatus, showStepUp |-> showStepUp]
\* the state the closures of the first render captured (useState's initial values)
MountClosure == [trustScore |-> Num(100), trustStatus |-> "OK", showStepUp |-> FALSE]

MathRound(x) ==
    IF x.t = "number" THEN Num(x.v)
    ELSE IF x.t = "null" THEN Num(0)
    ELSE NaN

Msg(text) == [text |-> text, arg |-> NaN]

\* addAlert without the slice
addAlertNoCap(prev, message, type) ==
    <<[id |-> now, message |-> message, type |-> type]>> \o prev

\* setAlerts(prev => [new, ...prev].slice(0, 20))
addAlert(prev, message, type) ==
    LET all == <<[id |-> now, message |-> message, type |-> type]>> \o prev
    IN  SubSeq(all, 1, IF Len(all) < ALERT_CAP THEN Len(all) ELSE ALERT_CAP)

showToast(message, type) ==
    /\ toast' = [message |-> message, type |-> type]
    /\ toastCount' = toastCount + 1

\* handleTerminate that logs out without the grace delay
handleTerminateNow ==
    /\ alerts' = SetState(alerts, addAlert(alerts, Msg("Session terminated by security policy"), "danger"))
    /\ showToast("Session terminated - logging out in 4 seconds", "error")
    /\ terminateTimers' = terminateTimers \cup {[id |-> timersSet + 1, due |-> now]}
    /\ timersSet' = timersSet + 1

handleTerminate ==
    /\ alerts' = SetState(alerts, addAlert(alerts, Msg("Session terminated by security policy"), "danger"))
    /\ showToast("Session terminated - logging out in 4 seconds", "error")
    /\ terminateTimers' = terminateTimers \cup
                            {[id |-> timersSet + 1, due |-> now + TERMINATE_DELAY_MS]}
    /\ timersSet' = timersSet + 1

\* the thresholds the documentation gives for a score without an action
FallbackAction(score) ==
    IF score.v >= 70 THEN "continue"
    ELSE IF score.v >= 40 THEN "monitor"
    ELSE IF score.v >= 20 THEN "stepup"
    ELSE "terminate"

\* applyPolicy that closes the ceremony on a stepup verdict it sees open
applyPolicyToggle(action, requireStepup, score, status, c) ==
    /\ trustScore' = SetState(trustScore,
                              IF score \in {Null, Undefined} THEN c.trustScore ELSE score)
    /\ trustStatus' = SetState(trustStatus,
                               IF status \in {NULL, UNDEF} THEN c.trustStatus ELSE status)
    /\ IF action = "terminate"
       THEN /\ handleTerminate
            /\ UNCHANGED showStepUp
       ELSE IF action = "stepup" \/ requireStepup
       THEN /\ showStepUp' = SetState(showStepUp, ~showStepUp)
            /\ UNCHANGED <<alerts, toast, toastCount, terminateTimers, timersSet>>
       ELSE UNCHANGED <<showStepUp, alerts, toast, toastCount, terminateTimers, timersSet>>

\* applyPolicy that decides by the score's band and ignores the action
applyPolicyByScore(action, requireStepup, score, status, c) ==
    /\ trustScore' = SetState(trustScore,
                              IF score \in {Null, Undefined} THEN c.trustScore ELSE score)
    /\ trustStatus' = SetState(trustStatus,
                               IF status \in {NULL, UNDEF} THEN c.trustStatus ELSE status)
    /\ IF score.t = "number" /\ FallbackAction(score) = "terminate"
       THEN /\ handleTerminate
            /\ UNCHANGED showStepUp
       ELSE IF score.t = "number" /\ FallbackAction(score) = "stepup"
       THEN /\ showStepUp' = SetState(showStepUp, TRUE)
            /\ UNCHANGED <<alerts, toast, toastCount, terminateTimers, timersSet>>
       ELSE UNCHANGED <<showStepUp, alerts, toast, toastCount, terminateTimers, timersSet>>

\* applyPolicy that shows a snapshot only if none was shown before it
applyPolicyFirstWins(action, requireStepup, score, status, c) ==
    /\ trustScore' = SetState(trustScore,
                              IF lastApplied # NotApplied THEN trustScore ELSE score)
    /\ trustStatus' = SetState(trustStatus,
                               IF lastApplied # NotApplied THEN trustStatus ELSE status)
    /\ IF action = "terminate"
       THEN /\ handleTerminate
            /\ UNCHANGED showStepUp
       ELSE IF action = "stepup" \/ requireStepup
       THEN IF ~c.showStepUp
            THEN /\ showStepUp' = SetState(showStepUp, TRUE)
                 /\ alerts' = SetState(alerts,
                        addAlert(alerts, Msg("Suspicious behaviour - step-up authentication required"),
                                 "warning"))
                 /\ showToast("Re-authentication required", "warning")
                 /\ UNCHANGED <<terminateTimers, timersSet>>
            ELSE UNCHANGED <<showStepUp, alerts, toast, toastCount, terminateTimers, timersSet>>
       ELSE IF action = "monitor"
       THEN /\ alerts' = SetState(alerts,
                   addAlert(alerts, [text |-> "Trust score in monitoring range", arg |-> MathRound(score)],
                            "info"))
            /\ UNCHANGED <<showStepUp, toast, toastCount, terminateTimers, timersSet>>
       ELSE UNCHANGED <<showStepUp, alerts, toast, toastCount, terminateTimers, timersSet>>

\* applyPolicy that closes the ceremony on a continue verdict
applyPolicyContinueCloses(action, requireStepup, score, status, c) ==
    /\ trustScore' = SetState(trustScore,
                              IF score \in {Null, Undefined} THEN c.trustScore ELSE score)
    /\ trustStatus' = SetState(trustStatus,
                               IF status \in {NULL, UNDEF} THEN c.trustStatus ELSE status)
    /\ IF action = "terminate"
       THEN /\ handleTerminate
            /\ UNCHANGED showStepUp
       ELSE IF action = "stepup" \/ requireStepup
       THEN IF ~c.showStepUp
            THEN /\ showStepUp' = SetState(showStepUp, TRUE)
                 /\ alerts' = SetState(alerts,
                        addAlert(alerts, Msg("Suspicious behaviour - step-up authentication required"),
                                 "warning"))
                 /\ showToast("Re-authentication required", "warning")
                 /\ UNCHANGED <<terminateTimers, timersSet>>
            ELSE UNCHANGED <<showStepUp, alerts, toast, toastCount, terminateTimers, timersSet>>
       ELSE IF action = "monitor"
       THEN /\ alerts' = SetState(alerts,
                   addAlert(alerts, [text |-> "Trust score in monitoring range", arg |-> MathRound(score)],
                            "info"))
            /\ UNCHANGED <<showStepUp, toast, toastCount, terminateTimers, timersSet>>
       ELSE IF action = "continue"
       THEN /\ showStepUp' = SetState(showStepUp, FALSE)
            /\ UNCHANGED <<alerts, toast, toastCount, terminateTimers, timersSet>>
       ELSE UNCHANGED <<showStepUp, alerts, toast, toastCount, terminateTimers, timersSet>>

\* c is the state captured by the closure that runs applyPolicy.
applyPolicy(action, requireStepup, score, status, c) ==
    /\ trustScore' = SetState(trustScore,
                              IF score \in {Null, Undefined} THEN c.trustScore ELSE score)
    /\ trustStatus' = SetState(trustStatus,
                               IF status \in {NULL, UNDEF} THEN c.trustStatus ELSE status)
    /\ IF action = "terminate"
       THEN /\ handleTerminate
            /\ UNCHANGED showStepUp
       ELSE IF action = "stepup" \/ requireStepup
       THEN IF ~c.showStepUp
            THEN /\ showStepUp' = SetState(showStepUp, TRUE)
                 /\ alerts' = SetState(alerts,
                        addAlert(alerts, Msg("Suspicious behaviour - step-up authentication required"),
                                 "warning"))
                 /\ showToast("Re-authentication required", "warning")
                 /\ UNCHANGED <<terminateTimers, timersSet>>
            ELSE UNCHANGED <<showStepUp, alerts, toast, toastCount, terminateTimers, timersSet>>
       ELSE IF action = "monitor"
       THEN /\ alerts' = SetState(alerts,
                   addAlert(alerts, [text |-> "Trust score in monitoring range", arg |-> MathRound(score)],
                            "info"))
            /\ UNCHANGED <<showStepUp, toast, toastCount, terminateTimers, timersSet>>
       ELSE UNCHANGED <<showStepUp, alerts, toast, toastCount, terminateTimers, timersSet>>

\* the StepUpModal is rendered
CeremonyOpen == mounted /\ showStepUp

\* the verdict applied last, and whether the modal was rendered when it arrived
Applied(source, action, requireStepup, score) ==
    [source |-> source, action |-> action, requireStepup |-> requireStepup,
     score |-> score, whileOpen |-> CeremonyOpen]

\* The modal's own state lasts as long as the modal is rendered.
ModalState(loading, error) ==
    /\ modalLoading' = IF mounted' /\ showStepUp' THEN loading ELSE FALSE
    /\ modalError' = IF mounted' /\ showStepUp' THEN error ELSE NULL

\* the session is there, capture has started, the dashboard has rendered:
\* all of it but the alert list
InitPanel ==
    /\ currentSession = 1
    /\ isCapturing = TRUE
    /\ listeners = TRUE
    /\ batchInterval = MOUSE_THROTTLE + BATCH_INTERVAL
    /\ eventBuffer = <<>>
    /\ lastMouseMove = 0
    /\ keystrokeCount = 0
    /\ mouseCount = 0
    /\ batchesSent = 0
    /\ inFlight = {}
    /\ submitted = <<>>
    /\ recorded = {}
    /\ discarded = {}
    /\ nextId = 0
    /\ epoch = 1
    /\ lastInput = NoInput
    /\ updateTrustScore = [score |-> Null, status |-> NULL]
    /\ now = MOUSE_THROTTLE
    /\ ticks = 0
    \* the Dashboard after its first render and its mount effect
    /\ mounted = TRUE
    /\ isAuthenticated = TRUE
    /\ token = 1
    /\ trustScore = Num(100)
    /\ trustStatus = "OK"
    /\ showStepUp = FALSE
    /\ toast = NoToast
    /\ pollInterval = now + POLL_INTERVAL_MS
    /\ polls = {}
    /\ terminateTimers = {}
    /\ logoutsInFlight = 0
    /\ sessionLoads = 1
    /\ modalPhase = "idle"
    /\ modalLoading = FALSE
    /\ modalError = NULL
    /\ requests = 0
    /\ batchUpdates = 0
    /\ toastCount = 0
    /\ timersSet = 0
    /\ logoutCalls = [all |-> 0, byTimer |-> 0]
    /\ lastApplied = NotApplied
    /\ stepUps = 0
    /\ attempts = 0
    /\ adds = 0
    /\ pollIntervals = (IF client = "vanilla" THEN 1 ELSE 0)
    /\ authToken = 1
    /\ verifying = {}
    /\ staleIntervals = {}

\* the same with the alert list of the first render
InitSession ==
    /\ InitPanel
    /\ alerts = <<>>

\* the React client: AuthProvider holds the session, the hook is mounted
InitMounted ==
    /\ client = "react"
    /\ phase = "mounted"
    /\ loginCount = 0
    /\ InitSession

\* the Dashboard after its mount effect: loadSessionInfo and fetchAlerts are under way
InitDash ==
    /\ InitMounted
    /\ variant = "current"
    /\ alertFetches = 1


\* the interval registered at mount fires: refreshTrustScore of the first render
PollTimer ==
    /\ pollInterval # NoTimer
    /\ now >= pollInterval
    /\ requests < MaxPolls
    /\ pollInterval' = pollInterval + POLL_INTERVAL_MS
    /\ polls' = polls \cup {[id |-> requests + 1, source |-> "interval", closure |-> MountClosure]}
    /\ requests' = requests + 1
    /\ UNCHANGED <<collectorVars, earlierVars, updateTrustScore, now, ticks, mounted, isAuthenticated, token,
                   trustScore, trustStatus, showStepUp, alerts, toast, terminateTimers,
                   logoutsInFlight, alertFetches, sessionLoads, modalPhase, modalLoading,
                   modalError, batchUpdates, toastCount, timersSet, logoutCalls, lastApplied>>

\* the Refresh button: refreshTrustScore of the current render
ManualRefresh ==
    /\ mounted
    /\ requests < MaxPolls
    /\ polls' = polls \cup {[id |-> requests + 1, source |-> "button", closure |-> Closure]}
    /\ requests' = requests + 1
    /\ UNCHANGED <<collectorVars, earlierVars, updateTrustScore, now, ticks, mounted, isAuthenticated, token,
                   trustScore, trustStatus, showStepUp, alerts, toast, pollInterval,
                   terminateTimers, logoutsInFlight, alertFetches, sessionLoads, modalPhase,
                   modalLoading, modalError, batchUpdates, toastCount, timersSet, logoutCalls,
                   lastApplied>>

\* refreshTrustScore after the await: the snapshot arrives
refreshTrustScore(p, data) ==
    /\ p \in polls
    /\ polls' = polls \ {p}
    /\ applyPolicy(data.action, data.require_stepup, data.trust_score, data.status, p.closure)
    /\ lastApplied' = Applied(p.source, data.action, data.require_stepup, data.trust_score)
    /\ UNCHANGED <<collectorVars, earlierVars, updateTrustScore, now, ticks, mounted, isAuthenticated, token,
                   pollInterval, logoutsInFlight, alertFetches, sessionLoads, modalPhase,
                   modalLoading, modalError, requests, batchUpdates, logoutCalls>>

\* a failed poll that backs off: the next poll is put off by one more period
refreshTrustScoreErrorBackoff(p) ==
    /\ p \in polls
    /\ polls' = polls \ {p}
    /\ pollInterval' = IF pollInterval = NoTimer THEN NoTimer ELSE pollInterval + POLL_INTERVAL_MS
    /\ UNCHANGED <<collectorVars, earlierVars, updateTrustScore, now, ticks, mounted, isAuthenticated, token,
                   trustScore, trustStatus, showStepUp, alerts, toast,
                   terminateTimers, logoutsInFlight, alertFetches, sessionLoads, modalPhase,
                   modalLoading, modalError, requests, batchUpdates, toastCount, timersSet,
                   logoutCalls, lastApplied>>

\* refreshTrustScore after the await: the request failed
refreshTrustScoreError(p) ==
    /\ p \in polls
    /\ polls' = polls \ {p}
    /\ UNCHANGED <<collectorVars, earlierVars, updateTrustScore, now, ticks, mounted, isAuthenticated, token,
                   trustScore, trustStatus, showStepUp, alerts, toast, pollInterval,
                   terminateTimers, logoutsInFlight, alertFetches, sessionLoads, modalPhase,
                   modalLoading, modalError, requests, batchUpdates, toastCount, timersSet,
                   logoutCalls, lastApplied>>

\* the collector publishes a batch verdict and the Dashboard's effect on
\* updateTrustScore runs in the render that follows
BatchUpdate(result) ==
    /\ mounted
    /\ batchUpdates < MaxBatchUpdates
    /\ batchUpdates' = batchUpdates + 1
    /\ updateTrustScore' = [score |-> result.trust_score, status |-> result.status]
    /\ IF result.trust_score = Null
       THEN UNCHANGED <<trustScore, trustStatus, showStepUp, alerts, toast, toastCount,
                        terminateTimers, timersSet, alertFetches, lastApplied>>
       ELSE /\ applyPolicy(UNDEF, FALSE, result.trust_score, result.status, Closure)
            /\ lastApplied' = Applied("batch", UNDEF, FALSE, result.trust_score)
            /\ alertFetches' = alertFetches + 1
    /\ UNCHANGED <<collectorVars, earlierVars, now, ticks, mounted, isAuthenticated, token, pollInterval,
                   polls, logoutsInFlight, sessionLoads, modalPhase, modalLoading, modalError,
                   requests, logoutCalls>>

\* fetchAlerts after the await: the backend's list replaces the local one
fetchAlerts(list) ==
    /\ alertFetches > 0
    /\ alertFetches' = alertFetches - 1
    /\ alerts' = SetState(alerts, list)
    /\ UNCHANGED <<collectorVars, earlierVars, updateTrustScore, now, ticks, mounted, isAuthenticated, token,
                   trustScore, trustStatus, showStepUp, toast, pollInterval, polls,
                   terminateTimers, logoutsInFlight, sessionLoads, modalPhase, modalLoading,
                   modalError, requests, batchUpdates, toastCount, timersSet, logoutCalls,
                   lastApplied>>

fetchAlertsError ==
    /\ alertFetches > 0
    /\ alertFetches' = alertFetches - 1
    /\ UNCHANGED <<collectorVars, earlierVars, updateTrustScore, now, ticks, mounted, isAuthenticated, token,
                   trustScore, trustStatus, showStepUp, alerts, toast, pollInterval, polls,
                   terminateTimers, logoutsInFlight, sessionLoads, modalPhase, modalLoading,
                   modalError, requests, batchUpdates, toastCount, timersSet, logoutCalls,
                   lastApplied>>

\* loadSessionInfo after the await
loadSessionInfo(data) ==
    /\ sessionLoads > 0
    /\ sessionLoads' = sessionLoads - 1
    /\ trustScore' = SetState(trustScore, data.trust_score)
    /\ trustStatus' = SetState(trustStatus, data.status)
    /\ UNCHANGED <<collectorVars, earlierVars, updateTrustScore, now, ticks, mounted, isAuthenticated, token,
                   showStepUp, alerts, toast, pollInterval, polls, terminateTimers,
                   logoutsInFlight, alertFetches, modalPhase, modalLoading, modalError,
                   requests, batchUpdates, toastCount, timersSet, logoutCalls, lastApplied>>

loadSessionInfoError ==
    /\ sessionLoads > 0
    /\ sessionLoads' = sessionLoads - 1
    /\ UNCHANGED <<collectorVars, earlierVars, updateTrustScore, now, ticks, mounted, isAuthenticated, token,
                   trustScore, trustStatus, showStepUp, alerts, toast, pollInterval, polls,
                   terminateTimers, logoutsInFlight, alertFetches, modalPhase, modalLoading,
                   modalError, requests, batchUpdates, toastCount, timersSet, logoutCalls,
                   lastApplied>>


\* AuthContext.logout up to its await; the closure's token is the session's
logout(byTimer) ==
    /\ logoutCalls' = [all |-> logoutCalls.all + 1,
                       byTimer |-> logoutCalls.byTimer + (IF byTimer THEN 1 ELSE 0)]
    /\ logoutsInFlight' = logoutsInFlight + 1

\* a teardown timer set by handleTerminate fires
TerminateTimer(t) ==
    /\ t \in terminateTimers
    /\ now >= t.due
    /\ terminateTimers' = terminateTimers \ {t}
    /\ logout(TRUE)
    /\ UNCHANGED <<collectorVars, earlierVars, updateTrustScore, now, ticks, mounted, isAuthenticated, token,
                   trustScore, trustStatus, showStepUp, alerts, toast, pollInterval, polls,
                   alertFetches, sessionLoads, modalPhase, modalLoading, modalError, requests,
                   batchUpdates, toastCount, timersSet, lastApplied>>

\* the Logout button of the session card
LogoutClick ==
    /\ mounted
    /\ logoutsInFlight = 0
    /\ logout(FALSE)
    /\ UNCHANGED <<collectorVars, earlierVars, updateTrustScore, now, ticks, mounted, isAuthenticated, token,
                   trustScore, trustStatus, showStepUp, alerts, toast, pollInterval, polls,
                   terminateTimers, alertFetches, sessionLoads, modalPhase, modalLoading,
                   modalError, requests, batchUpdates, toastCount, timersSet, lastApplied>>

\* "Logout Instead" of the modal: onCancel is logout
ModalCancel ==
    /\ CeremonyOpen
    /\ ~modalLoading
    /\ logoutsInFlight = 0
    /\ logout(FALSE)
    /\ UNCHANGED <<collectorVars, earlierVars, updateTrustScore, now, ticks, mounted, isAuthenticated, token,
                   trustScore, trustStatus, showStepUp, alerts, toast, pollInterval, polls,
                   terminateTimers, alertFetches, sessionLoads, modalPhase, modalLoading,
                   modalError, requests, batchUpdates, toastCount, timersSet, lastApplied>>

\* AuthContext.logout after its await: the finally block clears the session,
\* App renders the login view, the Dashboard and its hook unmount
LogoutFinish ==
    /\ logoutsInFlight > 0
    /\ logoutsInFlight' = logoutsInFlight - 1
    /\ token' = 0
    /\ isAuthenticated' = FALSE
    /\ mounted' = FALSE
    /\ pollInterval' = NoTimer
    /\ ModalState(modalLoading, modalError)
    /\ IF mounted
       THEN /\ phase' = "unmounted"
            /\ stopCapture
            /\ UNCHANGED <<client, currentSession, loginCount, batchInterval, lastMouseMove,
                           keystrokeCount, mouseCount, batchesSent, recorded, discarded,
                           nextId, epoch, lastInput>>
       ELSE UNCHANGED collectorVars
    /\ authToken' = 0
    /\ UNCHANGED <<stepUps, attempts, variant, adds, pollIntervals, verifying, staleIntervals, updateTrustScore,
                   now, ticks, trustScore, trustStatus, showStepUp, alerts,
                   toast, polls, terminateTimers, alertFetches, sessionLoads, modalPhase,
                   requests, batchUpdates, toastCount, timersSet, logoutCalls, lastApplied>>

\* handleAuth behind a button that is not disabled while loading
handleAuthNotDisabled ==
    /\ CeremonyOpen
    /\ modalPhase' = "begin"
    /\ modalLoading' = TRUE
    /\ modalError' = NULL
    /\ UNCHANGED <<collectorVars, earlierVars, updateTrustScore, now, ticks, mounted, isAuthenticated, token,
                   trustScore, trustStatus, showStepUp, alerts, toast, pollInterval, polls,
                   terminateTimers, logoutsInFlight, alertFetches, sessionLoads, requests,
                   batchUpdates, toastCount, timersSet, logoutCalls, lastApplied>>

\* StepUpModal.handleAuth up to its first await
handleAuth ==
    /\ CeremonyOpen
    /\ ~modalLoading
    /\ modalPhase' = "begin"
    /\ modalLoading' = TRUE
    /\ modalError' = NULL
    /\ UNCHANGED <<collectorVars, earlierVars, updateTrustScore, now, ticks, mounted, isAuthenticated, token,
                   trustScore, trustStatus, showStepUp, alerts, toast, pollInterval, polls,
                   terminateTimers, logoutsInFlight, alertFetches, sessionLoads, requests,
                   batchUpdates, toastCount, timersSet, logoutCalls, lastApplied>>

\* an await of handleAuth returns: challenge received, then credential received
handleAuthAdvance ==
    /\ modalPhase \in {"begin", "get"}
    /\ modalPhase' = IF modalPhase = "begin" THEN "get" ELSE "complete"
    /\ UNCHANGED <<collectorVars, earlierVars, updateTrustScore, now, ticks, mounted, isAuthenticated, token,
                   trustScore, trustStatus, showStepUp, alerts, toast, pollInterval, polls,
                   terminateTimers, logoutsInFlight, alertFetches, sessionLoads, modalLoading,
                   modalError, requests, batchUpdates, toastCount, timersSet, logoutCalls,
                   lastApplied>>

\* the catch block that shows every error as the generic failure
ErrorTextGeneric(err) == "Step-up authentication failed."

\* the catch block of handleAuth: the inline error for a thrown error
ErrorText(err) ==
    IF err.name = "NotAllowedError" THEN "Authentication was cancelled or timed out."
    ELSE IF err.name = "SecurityError"
    THEN "Security error - ensure you are on the correct origin."
    ELSE IF err.message # "" THEN err.message
    ELSE "Step-up authentication failed."

\* an await of handleAuth throws, or the authenticator returns no credential
handleAuthError(err) ==
    /\ modalPhase \in err.at
    /\ modalPhase' = "idle"
    /\ mounted' = mounted
    /\ showStepUp' = showStepUp
    /\ ModalState(FALSE, ErrorText(err))
    /\ UNCHANGED <<collectorVars, earlierVars, updateTrustScore, now, ticks, isAuthenticated, token,
                   trustScore, trustStatus, alerts, toast, pollInterval, polls,
                   terminateTimers, logoutsInFlight, alertFetches, sessionLoads, requests,
                   batchUpdates, toastCount, timersSet, logoutCalls, lastApplied>>

\* handleStepUpSuccess that calls off the scheduled teardown
handleStepUpSuccessCallsOff ==
    /\ modalPhase = "complete"
    /\ modalPhase' = "idle"
    /\ trustScore' = SetState(trustScore, Num(100))
    /\ trustStatus' = SetState(trustStatus, "OK")
    /\ showStepUp' = SetState(showStepUp, FALSE)
    /\ alerts' = SetState(alerts, addAlert(alerts, Msg("Step-up authentication successful"), "info"))
    /\ showToast("Re-authentication successful!", "success")
    /\ alertFetches' = alertFetches + 1
    /\ mounted' = mounted
    /\ terminateTimers' = {}
    /\ ModalState(FALSE, modalError)
    /\ UNCHANGED <<collectorVars, earlierVars, updateTrustScore, now, ticks, isAuthenticated, token,
                   pollInterval, polls, logoutsInFlight, sessionLoads,
                   requests, batchUpdates, timersSet, logoutCalls, lastApplied>>

\* handleStepUpSuccess that marks the client authenticated again
handleStepUpSuccessSignsIn ==
    /\ modalPhase = "complete"
    /\ modalPhase' = "idle"
    /\ trustScore' = SetState(trustScore, Num(100))
    /\ trustStatus' = SetState(trustStatus, "OK")
    /\ showStepUp' = SetState(showStepUp, FALSE)
    /\ alerts' = SetState(alerts, addAlert(alerts, Msg("Step-up authentication successful"), "info"))
    /\ showToast("Re-authentication successful!", "success")
    /\ alertFetches' = alertFetches + 1
    /\ mounted' = mounted
    /\ isAuthenticated' = TRUE
    /\ ModalState(FALSE, modalError)
    /\ UNCHANGED <<collectorVars, earlierVars, updateTrustScore, now, ticks, token,
                   pollInterval, polls, terminateTimers, logoutsInFlight, sessionLoads,
                   requests, batchUpdates, timersSet, logoutCalls, lastApplied>>

\* stepupComplete succeeded: onSuccess() is the Dashboard's handleStepUpSuccess
handleStepUpSuccess ==
    /\ modalPhase = "complete"
    /\ modalPhase' = "idle"
    /\ trustScore' = SetState(trustScore, Num(100))
    /\ trustStatus' = SetState(trustStatus, "OK")
    /\ showStepUp' = SetState(showStepUp, FALSE)
    /\ alerts' = SetState(alerts, addAlert(alerts, Msg("Step-up authentication successful"), "info"))
    /\ showToast("Re-authentication successful!", "success")
    /\ alertFetches' = alertFetches + 1
    /\ mounted' = mounted
    /\ ModalState(FALSE, modalError)
    /\ UNCHANGED <<collectorVars, earlierVars, updateTrustScore, now, ticks, isAuthenticated, token,
                   pollInterval, polls, terminateTimers, logoutsInFlight, sessionLoads,
                   requests, batchUpdates, timersSet, logoutCalls, lastApplied>>

\* the deadlines of the Dashboard's timers
Deadlines == {t.due : t \in terminateTimers} \cup
             (IF pollInterval = NoTimer THEN {} ELSE {pollInterval})

\* time passes, never beyond a timer that is due
TickBoundDash == IF variant = "current" THEN MaxTicksDash ELSE MaxTicksEarlier

TickDash(t) ==
    /\ ticks < TickBoundDash
    /\ t > now
    /\ \A d \in Deadlines : t <= d
    /\ now' = t
    /\ ticks' = ticks + 1
    /\ UNCHANGED <<collectorVars, earlierVars, updateTrustScore, dashVars>>

NextDash ==
    \/ PollTimer
    \/ ManualRefresh
    \/ \E p \in polls, data \in PollSnapshots : refreshTrustScore(p, data)
    \/ \E p \in polls : refreshTrustScoreError(p)
    \/ \E result \in BatchTrust : BatchUpdate(result)
    \/ \E list \in BackendAlerts : fetchAlerts(list)
    \/ fetchAlertsError
    \/ \E data \in SessionData : loadSessionInfo(data)
    \/ loadSessionInfoError
    \/ \E t \in terminateTimers : TerminateTimer(t)
    \/ LogoutClick
    \/ ModalCancel
    \/ LogoutFinish
    \/ handleAuth
    \/ handleAuthAdvance
    \/ \E err \in StepUpErrors : handleAuthError(err)
    \/ handleStepUpSuccess
    \/ \E t \in Deadlines \cup {now + DashStep} : TickDash(t)

SpecDashboard == InitDash /\ [][NextDash]_vars


(***************************************************************************)
(* Properties of the policy reactor.                                       *)
(***************************************************************************)
\* the ceremony: whether the modal is rendered and how far its attempt got
Ceremony == <<CeremonyOpen, modalPhase, modalLoading, modalError>>

\* an alert of the given type was put on top of the list
AlertAdded(type) ==
    /\ Len(alerts') = (IF Len(alerts) < ALERT_CAP THEN Len(alerts) + 1 ELSE ALERT_CAP)
    /\ alerts'[1].type = type
    /\ alerts'[1].id = now

\* C1 Terminate verdicts applied within the grace window schedule one
\* teardown between them, and the timers log the session out once.
C1_OneTeardown ==
    /\ Cardinality(terminateTimers) <= 1
    /\ logoutCalls.byTimer <= 1

\* C2 At most one step-up ceremony is open at any time, and a verdict
\* applied while the ceremony is open (a stepup verdict included) leaves
\* exactly that ceremony open, at the point its attempt had reached.
C2_OneCeremony ==
    /\ [](~CeremonyOpen => (~modalLoading /\ modalError = NULL))
    /\ [][(/\ CeremonyOpen
           /\ \/ \E p \in polls : \E data \in PollSnapshots : refreshTrustScore(p, data)
              \/ \E result \in BatchTrust : BatchUpdate(result))
          => Ceremony' = Ceremony]_vars

C2_Witness ==
    /\ lastApplied.action = "stepup"
    /\ lastApplied.whileOpen
    /\ CeremonyOpen
    /\ modalPhase = "get"

\* C3 A stepup verdict (action stepup, or require_stepup set) applied while
\* the ceremony is open adds no alert, shows no toast and leaves the
\* ceremony as it is.
C3_StepUpWhileOpenIsQuiet ==
    [][\A p \in polls : \A data \in PollSnapshots :
         (/\ CeremonyOpen
          /\ data.action # "terminate"
          /\ (data.action = "stepup" \/ data.require_stepup)
          /\ refreshTrustScore(p, data))
         => /\ alerts' = alerts
            /\ toastCount' = toastCount
            /\ Ceremony' = Ceremony]_vars

\* the effects the fallback table asks for a snapshot without an action
FallbackEffects(score) ==
    LET a == FallbackAction(score)
    IN  /\ trustScore' = score
        /\ a = "continue" =>
              /\ alerts' = alerts
              /\ showStepUp' = showStepUp
              /\ timersSet' = timersSet
        /\ a = "monitor" =>
              /\ AlertAdded("info")
              /\ showStepUp' = showStepUp
              /\ timersSet' = timersSet
        /\ a = "stepup" =>
              /\ showStepUp'
              /\ timersSet' = timersSet
        /\ a = "terminate" =>
              /\ timersSet' = timersSet + 1

\* C4 A snapshot without an action, from the poller or from a batch, has
\* the effects of the action the fallback table derives from its score.
C4_FallbackTable ==
    [][/\ \A p \in polls : \A data \in PollSnapshots :
            (mounted /\ data.action = UNDEF /\ ~data.require_stepup
                /\ refreshTrustScore(p, data))
            => FallbackEffects(data.trust_score)
       /\ \A result \in BatchTrust :
            (result.trust_score # Null /\ BatchUpdate(result))
            => FallbackEffects(result.trust_score)]_vars

\* C5 as stated: a snapshot whose action is continue or monitor never opens
\* the ceremony and never schedules a teardown, whatever its other fields.
C5_ContinueMonitorNeverStepUp ==
    [][\A p \in polls : \A data \in PollSnapshots :
         (data.action \in {"continue", "monitor"} /\ refreshTrustScore(p, data))
         => /\ showStepUp' = showStepUp
            /\ terminateTimers' = terminateTimers]_vars

\* C5 amended: an explicit action decides whatever the score, except that
\* require_stepup turns continue and monitor into stepup.  terminate
\* schedules a teardown and leaves the ceremony; stepup (or require_stepup)
\* schedules none and opens the ceremony unless the calling closure saw it
\* open; continue and monitor without require_stepup open no ceremony and
\* schedule no teardown, and monitor adds one info alert.
C5_ExplicitActionDecides ==
    [][\A p \in polls : \A data \in PollSnapshots :
         (data.action # UNDEF /\ refreshTrustScore(p, data))
         => /\ mounted => trustScore' = data.trust_score
            /\ data.action = "terminate" =>
                  /\ timersSet' = timersSet + 1
                  /\ showStepUp' = showStepUp
            /\ (data.action # "terminate" /\ (data.action = "stepup" \/ data.require_stepup)) =>
                  /\ terminateTimers' = terminateTimers
                  /\ showStepUp => showStepUp'
                  /\ (mounted /\ ~p.closure.showStepUp) => showStepUp'
            /\ (data.action \in {"continue", "monitor"} /\ ~data.require_stepup) =>
                  /\ showStepUp' = showStepUp
                  /\ terminateTimers' = terminateTimers
                  /\ toastCount' = toastCount
                  /\ data.action = "continue" => alerts' = alerts
                  /\ (data.action = "monitor" /\ mounted) => AlertAdded("info")]_vars

C5_Witness ==
    /\ lastApplied.action = "stepup"
    /\ lastApplied.score = Num(85)
    /\ ~lastApplied.whileOpen
    /\ CeremonyOpen
    /\ Len(alerts) > 0
    /\ alerts[1].type = "warning"


(***************************************************************************)
(* The earlier Dashboard (components/Dashboard.jsx).  Its mount effect,    *)
(* poll interval, Refresh and Logout buttons and session load are those of *)
(* the Dashboard above; its reactor, alerts and modal differ.              *)
(***************************************************************************)
BatchTrustEarlier == BatchTrust \cup {Snapshot(Num(30), "SUSPICIOUS", "stepup", TRUE)}

\* setAlerts(prev => [newAlert, ...prev].slice(0, 10))
addAlertEarlier(prev, message, type) ==
    LET all == <<[id |-> now, message |-> message, type |-> type]>> \o prev
    IN  SubSeq(all, 1, IF Len(all) < ALERT_CAP_EARLIER THEN Len(all) ELSE ALERT_CAP_EARLIER)

\* what no action of the earlier Dashboard's reactor changes
earlierFrame == <<collectorVars, now, ticks, mounted, isAuthenticated, token, pollInterval,
                  terminateTimers, logoutsInFlight, alertFetches, sessionLoads, modalPhase,
                  modalLoading, modalError, requests, timersSet, logoutCalls, lastApplied>>

\* the earlier Dashboard after its mount effect: loadSessionInfo is under way
InitEarlier ==
    /\ InitMounted
    /\ variant = "earlier"
    /\ alertFetches = 0

\* refreshTrustScore after the await
refreshTrustScoreEarlier(p, data) ==
    /\ p \in polls
    /\ polls' = polls \ {p}
    /\ trustScore' = SetState(trustScore, data.trust_score)
    /\ trustStatus' = SetState(trustStatus, data.status)
    /\ IF data.require_stepup
       THEN /\ showStepUp' = SetState(showStepUp, TRUE)
            /\ alerts' = SetState(alerts,
                   addAlertEarlier(alerts, Msg("Step-up authentication required"), "warning"))
       ELSE UNCHANGED <<showStepUp, alerts>>
    /\ UNCHANGED <<earlierFrame, updateTrustScore, toast, toastCount, batchUpdates, earlierVars>>

\* the effect on updateTrustScore
BatchUpdateEarlier(result) ==
    /\ mounted
    /\ batchUpdates < MaxBatchUpdates
    /\ batchUpdates' = batchUpdates + 1
    /\ updateTrustScore' = [score |-> result.trust_score, status |-> result.status]
    /\ IF result.trust_score # Null
       THEN /\ trustScore' = result.trust_score
            /\ trustStatus' = result.status
            /\ alerts' = IF result.status = "SUSPICIOUS"
                         THEN addAlertEarlier(alerts, Msg("Suspicious behavior detected"), "warning")
                         ELSE IF result.status = "CRITICAL"
                         THEN addAlertEarlier(alerts, Msg("Critical trust level"), "danger")
                         ELSE alerts
       ELSE UNCHANGED <<trustScore, trustStatus, alerts>>
    /\ UNCHANGED <<earlierFrame, showStepUp, toast, toastCount, polls, earlierVars>>

\* the modal's Authenticate button: handleStepUp up to its await
handleStepUp ==
    /\ CeremonyOpen
    /\ attempts < MaxStepUps
    /\ attempts' = attempts + 1
    /\ stepUps' = stepUps + 1
    /\ UNCHANGED <<variant, adds, pollIntervals, authToken, verifying, staleIntervals>>
    /\ UNCHANGED <<earlierFrame, updateTrustScore, trustScore, trustStatus, showStepUp, alerts,
                   toast, toastCount, polls, batchUpdates>>

\* handleStepUp after its await
handleStepUpAnswer(ok) ==
    /\ stepUps > 0
    /\ stepUps' = stepUps - 1
    /\ UNCHANGED <<attempts, variant, adds, pollIntervals, authToken, verifying, staleIntervals>>
    /\ IF ok
       THEN /\ trustScore' = SetState(trustScore, Num(100))
            /\ trustStatus' = SetState(trustStatus, "OK")
            /\ showStepUp' = SetState(showStepUp, FALSE)
            /\ showToast("Step-up authentication successful!", "success")
       ELSE /\ showToast("Step-up failed", "error")
            /\ UNCHANGED <<trustScore, trustStatus, showStepUp>>
    /\ UNCHANGED <<earlierFrame, updateTrustScore, alerts, polls, batchUpdates>>

\* the modal's cancel button: onCancel={() => setShowStepUp(false)}
onCancelEarlier ==
    /\ CeremonyOpen
    /\ showStepUp' = FALSE
    /\ UNCHANGED <<earlierFrame, updateTrustScore, trustScore, trustStatus, alerts, toast,
                   toastCount, polls, batchUpdates, earlierVars>>

NextEarlier ==
    \/ PollTimer
    \/ ManualRefresh
    \/ \E p \in polls, data \in PollSnapshots : refreshTrustScoreEarlier(p, data)
    \/ \E p \in polls : refreshTrustScoreError(p)
    \/ \E result \in BatchTrustEarlier : BatchUpdateEarlier(result)
    \/ \E data \in SessionData : loadSessionInfo(data)
    \/ loadSessionInfoError
    \/ handleStepUp
    \/ \E ok \in BOOLEAN : handleStepUpAnswer(ok)
    \/ onCancelEarlier
    \/ LogoutClick
    \/ LogoutFinish
    \/ \E t \in Deadlines \cup {now + DashStep} : TickDash(t)

SpecEarlier == InitEarlier /\ [][NextEarlier]_vars

(***************************************************************************)
(* The vanilla dashboard (dashboard.js with auth.js).  The panel is DOM    *)
(* state: trustScore is the text of #trustScoreValue, trustStatus the      *)
(* status text, showStepUp the modal's 'active' class, alerts the children *)
(* of #alertsContainer, pollInterval the timer in trustUpdateInterval,     *)
(* mounted the dashboard view being the active one.                        *)
(***************************************************************************)
\* while (container.children.length > 10) container.removeChild(container.lastChild)
RECURSIVE RemoveLast(_)
RemoveLast(list) ==
    IF Len(list) > ALERT_CAP_VANILLA
    THEN RemoveLast(SubSeq(list, 1, Len(list) - 1))
    ELSE list

\* container.insertBefore(alert, container.firstChild), then the limit
addAlertVanilla(prev, message, type) ==
    RemoveLast(<<[id |-> now, message |-> message, type |-> type]>> \o prev)

StatusText(status) ==
    IF status = "MONITOR" THEN "Monitoring for anomalies"
    ELSE IF status = "SUSPICIOUS" THEN "Suspicious activity detected"
    ELSE IF status = "CRITICAL" THEN "Critical - Session at risk"
    ELSE "All systems normal"

\* the alerts after updateTrustScore(score, status)
updateTrustScoreAlerts(prev, status) ==
    IF status = "SUSPICIOUS"
    THEN addAlertVanilla(prev, Msg("Suspicious behavior detected. Step-up authentication may be required."), "warning")
    ELSE IF status = "CRITICAL"
    THEN addAlertVanilla(prev, Msg("Critical trust level. Session will be terminated."), "danger")
    ELSE prev

\* what no action of the vanilla dashboard changes
vanillaFrame == <<client, loginCount, lastMouseMove, keystrokeCount, mouseCount, batchesSent,
                  recorded, discarded, nextId, epoch, lastInput, updateTrustScore,
                  terminateTimers, logoutsInFlight, alertFetches, modalPhase, modalLoading,
                  modalError, timersSet, logoutCalls, lastApplied, variant, adds,
                  pollIntervals, verifying, staleIntervals>>

\* what only logout changes
vanillaSession == <<phase, currentSession, isCapturing, listeners, batchInterval, eventBuffer,
                    inFlight, submitted, mounted, isAuthenticated, token, authToken>>

\* after handleLogin and switchToDashboard: initDashboard has called
\* loadSessionInfo and startTrustScorePolling, startCapture has run
InitVanillaDash ==
    /\ client = "vanilla"
    /\ phase = "dashboard"
    /\ loginCount = 1
    /\ InitSession
    /\ variant = "vanilla"
    /\ alertFetches = 0

\* the interval of startTrustScorePolling fires: refreshTrustScore up to its await
PollTimerVanilla ==
    /\ pollInterval # NoTimer
    /\ now >= pollInterval
    /\ requests < MaxPolls
    /\ pollInterval' = pollInterval + TRUST_UPDATE_INTERVAL
    /\ requests' = requests + 1
    /\ polls' = IF token = 0 \/ currentSession = 0
                THEN polls
                ELSE polls \cup {[id |-> requests + 1, source |-> "interval", closure |-> MountClosure]}
    /\ UNCHANGED <<vanillaFrame, vanillaSession, now, ticks, trustScore, trustStatus, showStepUp,
                   alerts, toast, toastCount, sessionLoads, batchUpdates, stepUps, attempts>>

\* #refreshTrustBtn: refreshTrustScore up to its await
ManualRefreshVanilla ==
    /\ mounted
    /\ requests < MaxPolls
    /\ requests' = requests + 1
    /\ polls' = IF token = 0 \/ currentSession = 0
                THEN polls
                ELSE polls \cup {[id |-> requests + 1, source |-> "button", closure |-> MountClosure]}
    /\ UNCHANGED <<vanillaFrame, vanillaSession, now, ticks, trustScore, trustStatus, showStepUp,
                   alerts, toast, toastCount, pollInterval, sessionLoads, batchUpdates, stepUps,
                   attempts>>

\* refreshTrustScore after the await, response.ok: updateTrustScore, then
\* showStepUpModal when require_stepup is set
refreshTrustScoreVanilla(p, data) ==
    /\ p \in polls
    /\ polls' = polls \ {p}
    /\ trustScore' = MathRound(data.trust_score)
    /\ trustStatus' = StatusText(data.status)
    /\ IF data.require_stepup
       THEN /\ showStepUp' = TRUE
            /\ alerts' = addAlertVanilla(updateTrustScoreAlerts(alerts, data.status),
                             Msg("Step-up authentication required to continue session."), "warning")
       ELSE /\ showStepUp' = showStepUp
            /\ alerts' = updateTrustScoreAlerts(alerts, data.status)
    /\ UNCHANGED <<vanillaFrame, vanillaSession, now, ticks, toast, toastCount, pollInterval,
                   sessionLoads, requests, batchUpdates, stepUps, attempts>>

\* loadSessionInfo after the await
loadSessionInfoVanilla(data) ==
    /\ sessionLoads > 0
    /\ sessionLoads' = sessionLoads - 1
    /\ trustScore' = MathRound(data.trust_score)
    /\ trustStatus' = StatusText(data.status)
    /\ alerts' = updateTrustScoreAlerts(alerts, data.status)
    /\ UNCHANGED <<vanillaFrame, vanillaSession, now, ticks, showStepUp, toast, toastCount,
                   pollInterval, polls, requests, batchUpdates, stepUps, attempts>>

\* sendEventBatch of the capture agent got a trust_score: window.updateTrustScore
BatchUpdateVanilla(result) ==
    /\ token # 0
    /\ batchUpdates < MaxBatchUpdates
    /\ batchUpdates' = batchUpdates + 1
    /\ trustScore' = MathRound(result.trust_score)
    /\ trustStatus' = StatusText(result.status)
    /\ alerts' = updateTrustScoreAlerts(alerts, result.status)
    /\ UNCHANGED <<vanillaFrame, vanillaSession, now, ticks, showStepUp, toast, toastCount,
                   pollInterval, polls, sessionLoads, requests, stepUps, attempts>>

\* #stepupAuthBtn: handleStepUp up to its await
handleStepUpVanilla ==
    /\ CeremonyOpen
    /\ attempts < MaxStepUps
    /\ attempts' = attempts + 1
    /\ stepUps' = stepUps + 1
    /\ showToast("Performing step-up authentication...", "success")
    /\ UNCHANGED <<vanillaFrame, vanillaSession, now, ticks, trustScore, trustStatus, showStepUp,
                   alerts, pollInterval, polls, sessionLoads, requests, batchUpdates>>

\* handleStepUp after its await
handleStepUpAnswerVanilla(ok) ==
    /\ stepUps > 0
    /\ stepUps' = stepUps - 1
    /\ IF ok
       THEN /\ showToast("Step-up authentication successful!", "success")
            /\ showStepUp' = FALSE
            /\ trustScore' = Num(100)
            /\ trustStatus' = StatusText("OK")
       ELSE /\ showToast("Step-up failed", "error")
            /\ UNCHANGED <<showStepUp, trustScore, trustStatus>>
    /\ UNCHANGED <<vanillaFrame, vanillaSession, now, ticks, alerts, pollInterval, polls,
                   sessionLoads, requests, batchUpdates, attempts>>

\* #stepupCancelBtn
closeStepUpModal ==
    /\ CeremonyOpen
    /\ showStepUp' = FALSE
    /\ UNCHANGED <<vanillaFrame, vanillaSession, now, ticks, trustScore, trustStatus, alerts,
                   toast, toastCount, pollInterval, polls, sessionLoads, requests, batchUpdates,
                   stepUps, attempts>>

\* #logoutBtn: logout() after its await; the poll interval is left running
logoutVanillaDash ==
    /\ mounted
    /\ token' = 0
    /\ currentSession' = 0
    /\ isAuthenticated' = FALSE
    /\ stopCaptureVanilla(0)
    /\ phase' = "auth"
    /\ mounted' = FALSE
    /\ authToken' = 0
    /\ showToast("Logged out successfully", "success")
    /\ UNCHANGED <<vanillaFrame, now, ticks, trustScore, trustStatus, showStepUp, alerts,
                   pollInterval, polls, sessionLoads, requests, batchUpdates, stepUps, attempts>>

NextVanillaDash ==
    \/ PollTimerVanilla
    \/ ManualRefreshVanilla
    \/ \E p \in polls, data \in PollSnapshots : refreshTrustScoreVanilla(p, data)
    \/ \E p \in polls : refreshTrustScoreError(p)
    \/ \E data \in SessionData : loadSessionInfoVanilla(data)
    \/ loadSessionInfoError
    \/ \E result \in BatchTrustEarlier : BatchUpdateVanilla(result)
    \/ handleStepUpVanilla
    \/ \E ok \in BOOLEAN : handleStepUpAnswerVanilla(ok)
    \/ closeStepUpModal
    \/ logoutVanillaDash
    \/ \E t \in Deadlines \cup {now + DashStep} : TickDash(t)

SpecVanillaDash == InitVanillaDash /\ [][NextVanillaDash]_vars


(***************************************************************************)
(* The three dashboards side by side: a behaviour is a behaviour of one of *)
(* them.                                                                   *)
(***************************************************************************)
InitReactors == InitDash \/ InitEarlier \/ InitVanillaDash

NextReactors ==
    \/ variant = "current" /\ NextDash
    \/ variant = "earlier" /\ NextEarlier
    \/ variant = "vanilla" /\ NextVanillaDash

SpecReactors == InitReactors /\ [][NextReactors]_vars

(***************************************************************************)
(* addAlert on its own: the three addAlert functions applied to alert      *)
(* lists of every length up to the cap, newest first as prepending leaves  *)
(* them, while the clock that gives the ids advances.                      *)
(***************************************************************************)
AlertTypes == {"info", "warning", "danger", "success"}

AlertCap(v) ==
    IF v = "current" THEN ALERT_CAP
    ELSE IF v = "earlier" THEN ALERT_CAP_EARLIER
    ELSE ALERT_CAP_VANILLA

\* the list after n addAlert calls, one per millisecond, the last just before now
SeedAlerts(n) == [i \in 1..n |-> [id |-> now - i, message |-> Msg("earlier alert"), type |-> "info"]]

InitAlerts ==
    /\ \/ client = "react" /\ phase = "mounted" /\ loginCount = 0 /\ InitPanel
             /\ variant \in {"current", "earlier"}
       \/ client = "vanilla" /\ phase = "dashboard" /\ loginCount = 1 /\ InitPanel
             /\ variant = "vanilla"
    /\ alertFetches = 0
    /\ \E n \in 0..AlertCap(variant) : alerts = SeedAlerts(n)

alertsFrame == <<collectorVars, updateTrustScore, now, ticks, mounted, isAuthenticated, token,
                 trustScore, trustStatus, showStepUp, toast, pollInterval, polls,
                 terminateTimers, logoutsInFlight, alertFetches, sessionLoads, modalPhase,
                 modalLoading, modalError, requests, batchUpdates, toastCount, timersSet,
                 logoutCalls, lastApplied, stepUps, attempts, variant, pollIntervals,
                 authToken, verifying, staleIntervals>>

\* addAlert of the Dashboard
AddAlert(type) ==
    /\ variant = "current"
    /\ adds < MaxAdds
    /\ adds' = adds + 1
    /\ alerts' = addAlert(alerts, Msg("alert"), type)
    /\ UNCHANGED alertsFrame

\* addAlert of the earlier Dashboard
AddAlertEarlier(type) ==
    /\ variant = "earlier"
    /\ adds < MaxAdds
    /\ adds' = adds + 1
    /\ alerts' = addAlertEarlier(alerts, Msg("alert"), type)
    /\ UNCHANGED alertsFrame

\* addAlert of the vanilla dashboard
AddAlertVanilla(type) ==
    /\ variant = "vanilla"
    /\ adds < MaxAdds
    /\ adds' = adds + 1
    /\ alerts' = addAlertVanilla(alerts, Msg("alert"), type)
    /\ UNCHANGED alertsFrame

NextAlerts ==
    \/ \E type \in AlertTypes : AddAlert(type)
    \/ \E type \in AlertTypes : AddAlertEarlier(type)
    \/ \E type \in AlertTypes : AddAlertVanilla(type)
    \/ TickDash(now + 1)

SpecAlerts == InitAlerts /\ [][NextAlerts]_vars

(***************************************************************************)
(* The Dashboard fed with snapshots whose score is out of range, missing   *)
(* or not a number, and whose status is missing.  None of them asks for a  *)
(* step-up or a termination, so the modal and the teardown timer stay out  *)
(* of it.                                                                  *)
(***************************************************************************)
\* a trust_score that is a string
Malformed == [t |-> "string", v |-> 0]

OddSnapshots ==
    {Snapshot(Num(120), "OK", "continue", FALSE),
     Snapshot(Num(0 - 5), "CRITICAL", "continue", FALSE),
     Snapshot(Num(55), "MONITOR", "monitor", FALSE),
     Snapshot(Undefined, UNDEF, "continue", FALSE),
     Snapshot(Num(30), UNDEF, "continue", FALSE),
     Snapshot(Malformed, "OK", "continue", FALSE)}

OddSessionData == {[trust_score |-> Num(120), status |-> "OK"],
                   [trust_score |-> Num(55), status |-> "MONITOR"],
                   [trust_score |-> Undefined, status |-> UNDEF]}

OddBatchTrust == {Snapshot(Num(0 - 5), "CRITICAL", "continue", FALSE),
                  Snapshot(Num(85), UNDEF, "continue", FALSE),
                  Snapshot(Null, UNDEF, "continue", FALSE)}

\* TrustScoreCard: {Math.round(score)}
DisplayedScore == MathRound(trustScore)

NextSnapshots ==
    \/ PollTimer
    \/ ManualRefresh
    \/ \E p \in polls, data \in OddSnapshots : refreshTrustScore(p, data)
    \/ \E p \in polls : refreshTrustScoreError(p)
    \/ \E result \in OddBatchTrust : BatchUpdate(result)
    \/ \E list \in BackendAlerts : fetchAlerts(list)
    \/ fetchAlertsError
    \/ \E data \in OddSessionData : loadSessionInfo(data)
    \/ loadSessionInfoError
    \/ LogoutClick
    \/ LogoutFinish
    \/ \E t \in Deadlines \cup {now + DashStep} : TickDash(t)

SpecSnapshots == InitDash /\ [][NextSnapshots]_vars

(***************************************************************************)
(* The session layer: AuthContext (React) and auth.js (vanilla).  A page   *)
(* load may find a saved token and start its verification; the login form  *)
(* is on screen meanwhile.  token is the token held in memory,             *)
(* currentSession the session id, authToken the stored token.  A token is  *)
(* named by the number of the session it belongs to.                       *)
(***************************************************************************)
SavedTokens == {0, 1}

\* the token a new login gets: the saved one is 1
NewToken == loginCount + 2

authFrame == <<client, lastMouseMove, updateTrustScore, inFlight, now, ticks, submitted,
               recorded, nextId, lastInput, polls, terminateTimers, logoutsInFlight,
               modalPhase, modalLoading, modalError, requests, batchUpdates, timersSet,
               logoutCalls, lastApplied, stepUps, attempts, variant, adds, staleIntervals>>

\* what the React handlers leave alone besides
authFrameReact == <<eventBuffer, keystrokeCount, mouseCount, batchesSent, discarded,
                    toast, toastCount, pollIntervals>>

InitAuth ==
    /\ client \in {"react", "vanilla"}
    /\ phase = IF client = "react" THEN "init" ELSE "auth"
    /\ currentSession = 0
    /\ CollectorIdle
    /\ PanelIdle
    /\ variant = IF client = "react" THEN "current" ELSE "vanilla"
    /\ mounted = FALSE
    /\ isAuthenticated = FALSE
    /\ \E saved \in SavedTokens :
          /\ authToken = saved
          /\ verifying = IF saved = 0 THEN {} ELSE {saved}
          /\ staleIntervals = {}
          /\ token = IF client = "vanilla" THEN saved ELSE 0

\* React: the state setters of login / verifySession make App render the
\* Dashboard, whose mount effects and whose hook's effect run
DashboardMount(tok) ==
    /\ token' = tok
    /\ currentSession' = tok
    /\ isAuthenticated' = TRUE
    /\ IF mounted
       THEN \* the Dashboard stays; the hook's effect on [token, sessionId] reruns
            /\ isCapturing' = TRUE
            /\ listeners' = TRUE
            /\ batchInterval' = now + BATCH_INTERVAL
            /\ epoch' = epoch + 1
            /\ UNCHANGED <<mounted, phase, pollInterval, sessionLoads, alertFetches,
                           trustScore, trustStatus, showStepUp, alerts>>
       ELSE /\ mounted' = TRUE
            /\ phase' = "mounted"
            /\ startCapture
            /\ pollInterval' = now + POLL_INTERVAL_MS
            /\ sessionLoads' = sessionLoads + 1
            /\ alertFetches' = alertFetches + 1
            /\ trustScore' = Num(100)
            /\ trustStatus' = "OK"
            /\ showStepUp' = FALSE
            /\ alerts' = <<>>

\* AuthContext.login, called by AuthView when the login ceremony succeeded
login ==
    /\ client = "react"
    /\ ~isAuthenticated
    /\ loginCount < MaxSessions
    /\ loginCount' = loginCount + 1
    /\ authToken' = NewToken
    /\ DashboardMount(NewToken)
    /\ UNCHANGED <<authFrame, authFrameReact, verifying>>

\* AuthContext.verifySession after its await
verifySession(v, ok) ==
    /\ client = "react"
    /\ v \in verifying
    /\ verifying' = verifying \ {v}
    /\ IF ok
       THEN /\ DashboardMount(v)
            /\ UNCHANGED authToken
       ELSE /\ authToken' = 0
            /\ UNCHANGED <<token, currentSession, isAuthenticated, mounted, phase, isCapturing,
                           listeners, batchInterval, epoch, pollInterval, sessionLoads,
                           alertFetches, trustScore, trustStatus, showStepUp, alerts>>
    /\ UNCHANGED <<authFrame, authFrameReact, loginCount>>

\* auth.js switchToDashboard: the view, initDashboard, startCapture
switchToDashboard ==
    /\ phase' = "dashboard"
    /\ mounted' = TRUE
    /\ isAuthenticated' = TRUE
    /\ sessionLoads' = sessionLoads + 1
    /\ pollInterval' = now + TRUST_UPDATE_INTERVAL
    /\ pollIntervals' = pollIntervals + 1
    /\ startCaptureVanilla

\* auth.js handleLogin after its last await, the verification having succeeded
handleLogin ==
    /\ client = "vanilla"
    /\ phase = "auth"
    /\ loginCount < MaxSessions
    /\ loginCount' = loginCount + 1
    /\ token' = NewToken
    /\ currentSession' = NewToken
    /\ authToken' = NewToken
    /\ showToast("Login successful!", "success")
    /\ switchToDashboard
    /\ UNCHANGED <<authFrame, verifying, alertFetches, trustScore, trustStatus, showStepUp, alerts>>

\* auth.js verifySession after its await
verifySessionVanilla(v, ok) ==
    /\ client = "vanilla"
    /\ v \in verifying
    /\ verifying' = verifying \ {v}
    /\ IF ok
       THEN /\ currentSession' = v
            /\ switchToDashboard
            /\ UNCHANGED <<token, authToken>>
       ELSE /\ authToken' = 0
            /\ token' = 0
            /\ UNCHANGED <<currentSession, phase, mounted, isAuthenticated, sessionLoads,
                           pollInterval, pollIntervals, isCapturing, listeners, batchInterval,
                           epoch, eventBuffer, discarded, keystrokeCount, mouseCount,
                           batchesSent>>
    /\ UNCHANGED <<authFrame, loginCount, toast, toastCount, alertFetches, trustScore,
                   trustStatus, showStepUp, alerts>>

NextAuth ==
    \/ login
    \/ \E v \in verifying, ok \in BOOLEAN : verifySession(v, ok)
    \/ client = "react" /\ LogoutClick
    \/ client = "react" /\ LogoutFinish
    \/ handleLogin
    \/ \E v \in verifying, ok \in BOOLEAN : verifySessionVanilla(v, ok)
    \/ client = "vanilla" /\ logoutVanillaDash
    \/ \E t \in Deadlines \cup {now + DashStep} : TickDash(t)

SpecAuth == InitAuth /\ [][NextAuth]_vars

(***************************************************************************)
(* Further properties of the Dashboards.                                   *)
(***************************************************************************)
\* C17 The modal's cancel always logs the session out: the ceremony never
\* closes with the session still there, unless a step-up succeeded (score
\* back to 100, status OK).
C17_CancelLogsOut ==
    [][(CeremonyOpen /\ ~CeremonyOpen')
          => (~isAuthenticated' \/ (trustScore' = Num(100) /\ trustStatus' = "OK"))]_vars

\* C12 Once the session has ended and the Dashboard is gone, nothing the
\* session created is left: the trust-poll interval, the batch interval and
\* the input listeners are all removed.
C12_NoDanglingHandlers ==
    ~mounted => (pollInterval = NoTimer /\ batchInterval = NoTimer /\ ~listeners)


\* C13 After the session has ended no callback of that session acts any
\* more: no teardown timer invokes logout, and no late answer schedules a
\* teardown or shows a notice.
C13_NoCallbackAfterEnd ==
    [][~isAuthenticated =>
          /\ logoutCalls' = logoutCalls
          /\ timersSet' = timersSet
          /\ toastCount' = toastCount]_vars


\* C14 A poll answer with action terminate appends a danger alert, shows the
\* logging-out notice and schedules logout for exactly the grace delay
\* later; the teardown is invoked at that time, not before, and nothing
\* removes it without invoking logout.
C14_TerminateGrace ==
    [][/\ \A p \in polls : \A data \in PollSnapshots :
            (data.action = "terminate" /\ refreshTrustScore(p, data))
            => /\ mounted => AlertAdded("danger")
               /\ toastCount' = toastCount + 1
               /\ toast'.type = "error"
               /\ logoutCalls' = logoutCalls
               /\ \E t \in terminateTimers' \ terminateTimers :
                     t.due = now + TERMINATE_DELAY_MS
       /\ \A t \in terminateTimers :
            /\ now' <= t.due
            /\ t \notin terminateTimers' =>
                  /\ now = t.due
                  /\ logoutCalls'.byTimer = logoutCalls.byTimer + 1
                  /\ logoutsInFlight' = logoutsInFlight + 1]_vars

C14_Witness ==
    /\ lastApplied.action = "terminate"
    /\ timersSet = 1
    /\ terminateTimers = {}
    /\ logoutCalls.byTimer = 1
    /\ now >= TERMINATE_DELAY_MS


\* the alerts of a list that record a successful re-authentication
SuccessAlerts(list) ==
    {list[k] : k \in {j \in 1..Len(list) :
                        list[j].message.text = "Step-up authentication successful"}}

\* the list after newer alerts pushed its oldest one out
Evicted(a) ==
    /\ Len(alerts) = ALERT_CAP
    /\ alerts[ALERT_CAP] = a
    /\ Len(alerts') = ALERT_CAP
    /\ SubSeq(alerts', 2, ALERT_CAP) = SubSeq(alerts, 1, ALERT_CAP - 1)

\* C15 A successful step-up sets the displayed score to 100 and the status
\* to OK, closes the modal and puts an info alert about it on the list; the
\* alert stays on the list until newer alerts evict it.
C15_StepUpSuccess ==
    [][/\ (mounted /\ handleStepUpSuccess)
            => /\ trustScore' = Num(100)
               /\ trustStatus' = "OK"
               /\ ~showStepUp'
               /\ AlertAdded("info")
               /\ alerts'[1] \in SuccessAlerts(alerts')
       /\ \A a \in SuccessAlerts(alerts) :
            a \in SuccessAlerts(alerts') \/ Evicted(a)]_vars


\* C16 A step-up attempt that fails in any of its phases leaves the modal
\* open with the Authenticate control enabled again and the error of its
\* class shown inline; it does not call onSuccess, does not change the
\* displayed trust and starts no new attempt.
C16_FailedAttempt ==
    [][\A err \in StepUpErrors :
         (CeremonyOpen /\ handleAuthError(err))
         => /\ CeremonyOpen'
            /\ ~modalLoading'
            /\ modalPhase' = "idle"
            /\ <<trustScore, trustStatus, alerts, toastCount, alertFetches>>'
                  = <<trustScore, trustStatus, alerts, toastCount, alertFetches>>
            /\ err.name = "NotAllowedError"
                  => modalError' = "Authentication was cancelled or timed out."
            /\ err.name = "SecurityError"
                  => modalError' = "Security error - ensure you are on the correct origin."
            /\ (err.name = "Error" /\ err.message # "") => modalError' = err.message]_vars

\* an attempt failed at the authenticator with a cancellation and the modal
\* is open for a retry
C16_Witness ==
    /\ CeremonyOpen
    /\ ~modalLoading
    /\ modalPhase = "idle"
    /\ modalError = "Authentication was cancelled or timed out."

\* C19 A failed trust poll changes nothing in the reactor: the displayed
\* score and status, the alerts, the ceremony flag, the toast and the
\* termination schedule stay as they were, and the poll timer is neither
\* stopped nor moved.  While the session lasts the timer stays armed, is
\* never overrun, and moves only by firing: it then issues a poll and is due
\* again exactly one period later.
C19_FailedPollSkipped ==
    /\ [](isAuthenticated => (pollInterval # NoTimer /\ now <= pollInterval))
    /\ [][/\ \A p \in polls :
               (refreshTrustScoreError(p) =>
                   UNCHANGED <<trustScore, trustStatus, alerts, showStepUp, toast, toastCount,
                               terminateTimers, timersSet, logoutsInFlight, logoutCalls,
                               pollInterval, requests, mounted, isAuthenticated>>)
           /\ (isAuthenticated' /\ pollInterval' # pollInterval) =>
                   (/\ now = pollInterval
                    /\ pollInterval' = pollInterval + POLL_INTERVAL_MS
                    /\ \E q \in polls' \ polls : q.source = "interval")]_vars

\* the first interval poll failed and the second was issued one period after it
C19_Witness ==
    /\ isAuthenticated
    /\ requests = 2
    /\ polls = {[id |-> 2, source |-> "interval", closure |-> MountClosure]}
    /\ now = MOUSE_THROTTLE + 2 * POLL_INTERVAL_MS
    /\ pollInterval = now + POLL_INTERVAL_MS
    /\ trustScore = Num(100)
    /\ alerts = <<>>
    /\ ~showStepUp
    /\ sessionLoads = 1
    /\ batchUpdates = 0
    /\ attempts = 0

\* C20 The alert list never holds more than its cap (20 in the Dashboard, 10
\* in the earlier Dashboard and in the vanilla dashboard) and stays ordered
\* newest first; every addAlert puts the new alert at the head and keeps the
\* previous alerts in order behind it, so that when the list was full it is
\* the last, oldest alert that is dropped and nothing else.
C20_AlertsCapped ==
    /\ [](/\ Len(alerts) <= AlertCap(variant)
          /\ \A i \in 1..Len(alerts) : \A j \in i..Len(alerts) : alerts[i].id >= alerts[j].id)
    /\ [][adds' # adds =>
             /\ Len(alerts') = (IF Len(alerts) < AlertCap(variant)
                                THEN Len(alerts) + 1 ELSE AlertCap(variant))
             /\ alerts'[1].id = now
             /\ alerts'[1].message = Msg("alert")
             /\ \A i \in 2..Len(alerts') : alerts'[i] = alerts[i - 1]]_vars

\* a full list took one more alert: the new one is at the head, the oldest
\* of the full list is gone and the one before it is now the last
C20_Witness ==
    /\ adds = 1
    /\ Len(alerts) = AlertCap(variant)
    /\ alerts[1].message = Msg("alert")
    /\ alerts[Len(alerts)].id = MOUSE_THROTTLE - AlertCap(variant) + 1

\* the alerts of a list that the Dashboard's own addAlert put there
ReactorAlerts(list) ==
    LET backend == UNION {{b[k] : k \in 1..Len(b)} : b \in BackendAlerts}
    IN  {list[i] : i \in {j \in 1..Len(list) : list[j] \notin backend}}

\* C21 The alert list is append-only: an alert the reactor appended leaves
\* the list only by being evicted as its oldest entry when the list is full;
\* no step of the Dashboard removes or replaces it otherwise.
C21_AppendOnly ==
    [][\A a \in ReactorAlerts(alerts) :
         a \in ReactorAlerts(alerts') \/ Evicted(a)]_vars

\* C22 The score shown is always a number within [0,100], whatever
\* trust_score the snapshots and the session metadata carry.
C22_ScoreClamped ==
    mounted => (DisplayedScore.t = "number" /\ DisplayedScore.v >= 0 /\ DisplayedScore.v <= 100)

\* a snapshot whose score or status is missing or is not what it should be
Incomplete(score, status) ==
    \/ score.t # "number"
    \/ status \notin {"OK", "MONITOR", "SUSPICIOUS", "CRITICAL"}

\* C23 Applying a snapshot whose score or status is missing or malformed
\* updates nothing: the displayed score and status stay what they were just
\* before, for poll answers and for batch answers alike.
C23_IncompleteIsNoUpdate ==
    [][/\ \A p \in polls : \A data \in OddSnapshots :
            (mounted /\ Incomplete(data.trust_score, data.status) /\ refreshTrustScore(p, data))
               => (trustScore' = trustScore /\ trustStatus' = trustStatus)
       /\ \A result \in OddBatchTrust :
            (Incomplete(result.trust_score, result.status) /\ BatchUpdate(result))
               => (trustScore' = trustScore /\ trustStatus' = trustStatus)]_vars

\* C24 Ending a session while the buffer holds events makes exactly one
\* final submission, carrying all the buffered events and tagged with the
\* session that is ending, in the vanilla client and in the React hook.
C24_FinalFlush ==
    [][(StopStep /\ eventBuffer # <<>>)
         => /\ Len(submitted') = Len(submitted) + 1
            /\ submitted'[Len(submitted')] = [session |-> currentSession, events |-> eventBuffer]
            /\ SubSeq(submitted', 1, Len(submitted)) = submitted]_vars

\* C25 Logout stops both timers and removes the listeners before it clears
\* the stored session: whenever the session is cleared, capture is off, the
\* listeners are gone and neither the batch interval nor the poll interval
\* of that session is still armed.
C25_StoppedBeforeCleared ==
    token = 0 => /\ ~isCapturing
                 /\ ~listeners
                 /\ batchInterval = NoTimer
                 /\ pollInterval = NoTimer

\* C26 A snapshot embedded in a successful batch answer has the effects the
\* same snapshot has when the poller delivers it: applyPolicy gets its
\* score, status, action and require_stepup as the answer carries them.
C26_BatchAsPoll ==
    [][\A result \in BatchTrust :
         (result.trust_score # Null /\ BatchUpdate(result))
            => applyPolicy(result.action, result.require_stepup, result.trust_score,
                           result.status, Closure)]_vars

\* C27 Through any login / logout / re-login cycles, a client with an active
\* session has exactly one batch interval, exactly one trust-poll interval
\* and its input listeners attached once; nothing of an earlier session
\* runs beside them.
C27_OneOfEach ==
    /\ (client = "vanilla" /\ phase = "dashboard")
          => (pollIntervals = 1 /\ batchInterval # NoTimer /\ listeners /\ isCapturing)
    /\ (client = "react" /\ phase = "mounted")
          => (batchInterval # NoTimer /\ listeners /\ isCapturing)

\* C28 When logout returns, the token in memory, the session id and the
\* stored token are cleared and the client is unauthenticated, whatever the
\* server answered; when the verification of a saved token fails, the stored
\* token is removed and the client is unauthenticated.
C28_TokenCleared ==
    [][/\ (LogoutFinish \/ logoutVanillaDash)
            => /\ token' = 0
               /\ authToken' = 0
               /\ ~isAuthenticated'
               /\ client = "vanilla" => currentSession' = 0
       /\ \A v \in verifying :
            (verifySession(v, FALSE) \/ verifySessionVanilla(v, FALSE))
               => /\ authToken' = 0
                  /\ ~isAuthenticated'
                  /\ client = "vanilla" => token' = 0]_vars

\* C29 Snapshots are applied last-write-wins by arrival: whenever a poll
\* answer or a batch answer carrying a score and a status arrives, the
\* displayed score and status become those of that snapshot, whichever way
\* it came, whenever its request was made and whatever was shown before.
C29_LastArrivalWins ==
    [][/\ \A p \in polls : \A data \in PollSnapshots :
            (mounted /\ refreshTrustScore(p, data))
               => (trustScore' = data.trust_score /\ trustStatus' = data.status)
       /\ \A result \in BatchTrust :
            (result.trust_score # Null /\ BatchUpdate(result))
               => (trustScore' = result.trust_score /\ trustStatus' = result.status)]_vars

\* a batch answer was shown, then the answer to the Refresh button's poll
\* arrived and is what the Dashboard shows
C29_Witness ==
    /\ mounted
    /\ batchUpdates = 1
    /\ updateTrustScore.score = Num(55)
    /\ requests = 2
    /\ polls = {}
    /\ lastApplied.source = "button"
    /\ lastApplied.score = Num(85)
    /\ trustScore = Num(85)
    /\ trustStatus = "OK"

\* the order of the phases of one attempt: challenge fetch, authenticator
\* assertion, server verification; a failure in any of them ends the attempt
PhaseOrder ==
    {<<"idle", "begin">>, <<"begin", "get">>, <<"get", "complete">>,
     <<"complete", "idle">>, <<"begin", "idle">>, <<"get", "idle">>}

\* a step that resets trust: the open ceremony closes on score 100, status OK
TrustReset ==
    /\ CeremonyOpen
    /\ mounted'
    /\ ~showStepUp'
    /\ trustScore' = Num(100)
    /\ trustStatus' = "OK"

\* C30 The phases of the step-up ceremony run in order, and trust is reset
\* (score 100, status OK, modal closed) only by the step in which the
\* verification of an assertion obtained in the same attempt succeeds: never
\* after a failure and never without an authenticator assertion.
C30_ResetOnlyAfterVerification ==
    [][/\ modalPhase' # modalPhase => <<modalPhase, modalPhase'>> \in PhaseOrder
       /\ TrustReset => (modalPhase = "complete" /\ modalPhase' = "idle")]_vars

\* C31 The step-up ceremony is single-flight: while an attempt is between
\* its start and its end the open modal shows its loading state, which
\* disables both buttons, so a new attempt starts, and the cancel control
\* acts, only when no attempt is under way.
C31_SingleFlightCeremony ==
    /\ [](CeremonyOpen /\ modalPhase # "idle" => modalLoading)
    /\ [][/\ handleAuth => modalPhase = "idle"
          /\ ModalCancel => modalPhase = "idle"]_vars

\* an attempt waits for the authenticator; the buttons are disabled
C31_Witness ==
    /\ CeremonyOpen
    /\ modalPhase = "get"
    /\ modalLoading
    /\ modalError = NULL

\* the click records among the events recorded so far
ClickSamples == {e \in recorded : e.type = "mouse" /\ e.action = "click"}

\* C32 Clicks are never throttled: while capture is active every click adds
\* one click record with its coordinates and the current time at the end of
\* the buffer and adds one to mouseCount, however recently a move or another
\* click was recorded, and it leaves the throttle timestamp of the moves as
\* it was.
C32_ClicksNotThrottled ==
    [][\A event \in MouseInputs :
         (isCapturing /\ MouseClick(event))
         => /\ Len(eventBuffer') = Len(eventBuffer) + 1
            /\ SubSeq(eventBuffer', 1, Len(eventBuffer)) = eventBuffer
            /\ LET e == eventBuffer'[Len(eventBuffer')]
               IN /\ e.type = "mouse" /\ e.action = "click"
                  /\ e.x = event.clientX /\ e.y = event.clientY
                  /\ e.timestamp = now
            /\ mouseCount' = mouseCount + 1
            /\ lastMouseMove' = lastMouseMove]_vars

\* a click recorded in the very millisecond of a recorded move
C32_Witness ==
    /\ lastInput = InputOp("click", "none")
    /\ mouseCount = 2
    /\ lastMouseMove = now
    /\ \E m \in MoveSamples : \E c \in ClickSamples : m.timestamp = c.timestamp

(***************************************************************************)
(* The hook across a change of its arguments.  The effect of the hook      *)
(* depends on [token, sessionId]: when AuthContext replaces them while the *)
(* Dashboard stays mounted (verifySession answers after login), React runs *)
(* the cleanup of the old closure and then the effect of the new one, in   *)
(* the same hook instance.                                                 *)
(***************************************************************************)
\* cleanup (stopCapture of the old closure, which flushes with the old
\* token) followed by the effect (startCapture of the new closure).  The
\* interval of the earlier startCapture is not cleared and keeps running
\* the old closure's sendEventBatch.
SessionChange ==
    /\ client = "react" /\ phase = "mounted"
    /\ isCapturing
    /\ currentSession # 0 /\ currentSession < MaxSessions
    /\ currentSession' = currentSession + 1
    /\ IF Len(eventBuffer) > 0
       THEN sendEventBatch(currentSession)
       ELSE UNCHANGED <<eventBuffer, submitted, inFlight>>
    /\ isCapturing' = TRUE
    /\ listeners' = TRUE
    /\ batchInterval' = now + BATCH_INTERVAL
    /\ staleIntervals' = staleIntervals \cup {[due |-> batchInterval, tok |-> currentSession]}
    /\ epoch' = epoch + 1
    /\ lastInput' = NoInput
    /\ UNCHANGED <<dashVars, stepUps, attempts, variant, adds, pollIntervals, authToken,
                   verifying, client, phase, loginCount, lastMouseMove, keystrokeCount,
                   mouseCount, batchesSent, updateTrustScore, now, ticks, recorded,
                   discarded, nextId>>

\* an interval of an earlier effect run fires: sendEventBatch of its closure
StaleBatchTimer(t) ==
    /\ now >= t.due
    /\ staleIntervals' = (staleIntervals \ {t}) \cup {[t EXCEPT !.due = @ + BATCH_INTERVAL]}
    /\ sendEventBatch(t.tok)
    /\ lastInput' = NoInput
    /\ UNCHANGED <<dashVars, stepUps, attempts, variant, adds, pollIntervals, authToken,
                   verifying, client, phase, currentSession, loginCount, isCapturing,
                   listeners, batchInterval, lastMouseMove, keystrokeCount, mouseCount,
                   batchesSent, updateTrustScore, now, ticks, recorded, discarded,
                   nextId, epoch>>

\* the clock jumps to the deadline of an interval of an earlier effect run
TickToStale(t) ==
    /\ ticks < TickBound
    /\ now < t.due
    /\ batchInterval = NoTimer \/ t.due <= batchInterval
    /\ now' = t.due
    /\ ticks' = ticks + 1
    /\ lastInput' = NoInput
    /\ UNCHANGED <<dashVars, earlierVars, client, phase, currentSession, loginCount,
                   isCapturing, listeners, batchInterval, eventBuffer, lastMouseMove,
                   keystrokeCount, mouseCount, batchesSent, updateTrustScore,
                   inFlight, submitted, recorded, discarded, nextId, epoch>>

\* no timer is overrun by the clock
NoOverrun == \A t \in staleIntervals : now' <= t.due \/ now' = now

NextRestart ==
    \/ NextCapture /\ NoOverrun
    \/ SessionChange
    \/ \E t \in staleIntervals : StaleBatchTimer(t)
    \/ \E t \in staleIntervals : TickToStale(t)

SpecRestart == InitCapture /\ [][NextRestart]_vars

\* C33 Every start of the collector resets the counters: in the step in
\* which a startCapture call takes effect, keystrokeCount, mouseCount and
\* batchesSent become 0 and the buffer becomes empty, in the vanilla agent
\* and in the React hook, whatever was captured before.
C33_StartResets ==
    [][epoch' # epoch
         => /\ keystrokeCount' = 0
            /\ mouseCount' = 0
            /\ batchesSent' = 0
            /\ eventBuffer' = <<>>]_vars

\* C34 Once a terminate verdict has been applied the teardown stays
\* scheduled: whatever step comes next (a later snapshot of any action and
\* score, a successful step-up completion, anything else), each pending
\* teardown keeps its deadline, the clock does not pass it, and it leaves the
\* schedule only by firing, which invokes logout.
C34_TeardownStays ==
    [][\A t \in terminateTimers :
         /\ now' <= t.due
         /\ \/ t \in terminateTimers'
            \/ /\ TerminateTimer(t)
               /\ logoutsInFlight' = logoutsInFlight + 1
               /\ logoutCalls'.all = logoutCalls.all + 1]_vars

\* a terminate verdict was applied, a later snapshot showed score 85 with
\* action continue, and the teardown fired all the same at its deadline
C34_Witness ==
    /\ timersSet = 1
    /\ terminateTimers = {}
    /\ logoutCalls.byTimer = 1
    /\ lastApplied.action = "continue"
    /\ trustScore = Num(85)
    /\ trustStatus = "OK"
    /\ mounted

\* C35 An open step-up ceremony is closed only by a successful step-up
\* completion or by the end of the session: a poll answer or a batch answer,
\* whatever its action and score, leaves an open ceremony open, and the only
\* step that turns showStepUp from true to false is handleStepUpSuccess.
C35_OnlySuccessCloses ==
    [][/\ \A p \in polls : \A data \in PollSnapshots :
            (CeremonyOpen /\ refreshTrustScore(p, data)) => CeremonyOpen'
       /\ \A result \in BatchTrust :
            (CeremonyOpen /\ BatchUpdate(result)) => CeremonyOpen'
       /\ (showStepUp /\ ~showStepUp') => handleStepUpSuccess
       /\ (CeremonyOpen /\ ~CeremonyOpen') => (handleStepUpSuccess \/ LogoutFinish)]_vars

\* the ceremony is open and the snapshot applied last while it was open is
\* score 85, status OK, action continue
C35_Witness ==
    /\ CeremonyOpen
    /\ lastApplied.whileOpen
    /\ lastApplied.action = "continue"
    /\ ~lastApplied.requireStepup
    /\ trustScore = Num(85)
    /\ trustStatus = "OK"

\* C36 Once logout has cleared the session nothing that resolves later
\* restores it: isAuthenticated stays false, the token and the stored token
\* stay cleared and the Dashboard stays unmounted, whatever ceremony phase,
\* ceremony success or failure, poll answer or batch answer comes after.
C36_SessionStaysCleared ==
    [][(~isAuthenticated /\ token = 0 /\ logoutCalls.all > 0)
         => /\ ~isAuthenticated'
            /\ token' = 0
            /\ authToken' = 0
            /\ ~mounted']_vars

\* the session was cleared while a step-up attempt was under way, and the
\* attempt then succeeded: its notice is shown, the client stays signed out
C36_Witness ==
    /\ ~isAuthenticated
    /\ token = 0
    /\ ~mounted
    /\ showStepUp
    /\ modalPhase = "idle"
    /\ toast.message = "Re-authentication successful!"

\* the submissions made for the session in scope that have been answered
AnsweredOfSession ==
    {i \in 1..Len(submitted) : submitted[i].session = currentSession /\ i \notin inFlight}

\* C37 batchesSent is the number of the session's batch submissions that
\* completed successfully: it never exceeds the number of submissions of the
\* session in scope that have been answered; it grows by exactly 1 in a
\* successful answer and changes in no other step but a start of capture:
\* not in a failed answer, not in a flush of an empty buffer, not in a flush
\* skipped for lack of a session.
C37_BatchesSentCounts ==
    /\ [](isCapturing => batchesSent <= Cardinality(AnsweredOfSession))
    /\ [][/\ \A i \in inFlight : \A result \in BatchResults :
               (isCapturing /\ BatchAnswer(i, result))
               => batchesSent' = batchesSent + (IF result.ok THEN 1 ELSE 0)
          /\ (BatchTimer /\ (eventBuffer = <<>> \/ currentSession = 0))
               => (batchesSent' = batchesSent /\ submitted' = submitted)
          /\ batchesSent' # batchesSent
               => \/ \E i \in inFlight : \E result \in BatchResults :
                        result.ok /\ BatchAnswer(i, result) /\ batchesSent' = batchesSent + 1
                  \/ epoch' # epoch /\ batchesSent' = 0]_vars

(***************************************************************************)
(* The collector's functions called in the states their guards are for:    *)
(* startCapture while capture is active, stopCapture and the input         *)
(* handlers while it is not.                                               *)
(***************************************************************************)
CallFrame ==
    UNCHANGED <<dashVars, earlierVars, client, phase, currentSession, loginCount,
                updateTrustScore, now, ticks>>

StartCall ==
    /\ isCapturing
    /\ IF client = "react"
       THEN /\ startCapture
            /\ UNCHANGED <<eventBuffer, discarded, keystrokeCount, mouseCount, batchesSent>>
       ELSE startCaptureVanilla
    /\ lastInput' = InputOp("startCapture", "none")
    /\ UNCHANGED <<lastMouseMove, inFlight, submitted, recorded, nextId>>
    /\ CallFrame

StopCall ==
    /\ ~isCapturing
    /\ IF client = "react"
       THEN stopCapture /\ UNCHANGED batchInterval
       ELSE stopCaptureVanilla(currentSession)
    /\ lastInput' = InputOp("stopCapture", "none")
    /\ UNCHANGED <<lastMouseMove, keystrokeCount, mouseCount, batchesSent, recorded,
                   discarded, nextId, epoch>>
    /\ CallFrame

\* an input handler runs while capture is inactive
HandlerCall(name, kev, mev) ==
    /\ ~isCapturing
    /\ CASE name = "keydown" ->
              /\ IF client = "react" THEN handleKeyDown(kev) ELSE handleKeyDownVanilla(kev)
              /\ UNCHANGED <<mouseCount, lastMouseMove>>
         [] name = "keyup" ->
              /\ IF client = "react" THEN handleKeyUp(kev) ELSE handleKeyUpVanilla(kev)
              /\ UNCHANGED <<mouseCount, lastMouseMove>>
         [] name = "mousemove" ->
              /\ IF client = "react" THEN handleMouseMove(mev) ELSE handleMouseMoveVanilla(mev)
              /\ UNCHANGED keystrokeCount
         [] name = "click" ->
              /\ IF client = "react" THEN handleMouseClick(mev) ELSE handleMouseClickVanilla(mev)
              /\ UNCHANGED <<keystrokeCount, lastMouseMove>>
    /\ Pushed
    /\ lastInput' = InputOp(name, "inactive")
    /\ InputFrame

HandlerNames == {"keydown", "keyup", "mousemove", "click"}

NextCalls ==
    \/ NextCapture
    \/ StartCall
    \/ StopCall
    \/ \E name \in HandlerNames, kev \in KeyEvents, mev \in MouseInputs :
          HandlerCall(name, kev, mev)

SpecCalls == InitCapture /\ [][NextCalls]_vars

\* what the collector holds: capture state, listeners, timer, buffer, counters
collectorState ==
    <<isCapturing, listeners, batchInterval, epoch, eventBuffer, lastMouseMove,
      keystrokeCount, mouseCount, batchesSent, submitted, inFlight, recorded, discarded>>

\* C38 startCapture and stopCapture are idempotent: startCapture called
\* while capture is active, stopCapture called while it is inactive and an
\* input handler run while it is inactive leave listeners, batch timer,
\* buffer, counters and submissions exactly as they were.
C38_Idempotent ==
    [][(\/ StartCall
        \/ StopCall
        \/ \E name \in HandlerNames, kev \in KeyEvents, mev \in MouseInputs :
              HandlerCall(name, kev, mev))
       => UNCHANGED collectorState]_vars

\* startCapture was called on a collector that is capturing and holds an
\* event: the event, the count and the timer are still there
C38_Witness ==
    /\ isCapturing
    /\ lastInput = InputOp("startCapture", "none")
    /\ Len(eventBuffer) = 1
    /\ keystrokeCount = 1
    /\ batchInterval < now + BATCH_INTERVAL
    /\ epoch = 1

\* C39 A flush attempted without a token or session id leaves the collector
\* as it is (nothing is submitted, the buffer keeps its events in order, the
\* counters keep their values), and the events it left in the buffer stay
\* available to a later flush: an event leaves the buffer only into a
\* submission.
C39_SkippedFlushKeeps ==
    [][/\ ((BatchTimer /\ currentSession = 0) \/ LogoutVanilla)
            => /\ eventBuffer' = eventBuffer
               /\ submitted' = submitted
               /\ inFlight' = inFlight
               /\ counters' = counters
       /\ \A k \in 1..Len(eventBuffer) :
            \/ eventBuffer[k] \in {eventBuffer'[j] : j \in 1..Len(eventBuffer')}
            \/ /\ Len(submitted') = Len(submitted) + 1
               /\ submitted'[Len(submitted')].events = eventBuffer]_vars

\* C40 The throttle of the moves measures from the last recorded move: a
\* move that arrives at least the throttle interval after it is recorded and
\* becomes the new reference, a move that arrives sooner is dropped and
\* leaves the reference where it was, so the reference is always the time
\* of the latest recorded move (or still its initial 0).
C40_ThrottleFromLastRecorded ==
    /\ [][\A event \in MouseInputs :
            (isCapturing /\ MouseMove(event))
            => IF now - lastMouseMove >= MOUSE_THROTTLE
               THEN /\ eventBuffer' = Append(eventBuffer, MouseRecord(event, "move", now))
                    /\ lastMouseMove' = now
                    /\ mouseCount' = mouseCount + 1
               ELSE /\ eventBuffer' = eventBuffer
                    /\ lastMouseMove' = lastMouseMove
                    /\ mouseCount' = mouseCount]_vars
    /\ [](/\ lastMouseMove \in {0} \cup {e.timestamp : e \in MoveSamples}
          /\ \A e \in MoveSamples : e.timestamp <= lastMouseMove)

\* a move has just been dropped half an interval after the recorded one,
\* and the reference is still the time of the recorded one
C40_Witness ==
    /\ isCapturing
    /\ lastInput = InputOp("mousemove", "none")
    /\ now - lastMouseMove = MOUSE_THROTTLE \div 2
    /\ mouseCount = 1
    /\ \E e \in MoveSamples : e.timestamp = lastMouseMove

============================================================================
